---- MODULE Spec2Model ----
(***************************************************************************)
(* A model of the mock-data generator (mockgen): the configuration loader, *)
(* the value coercion, the master merger and the record generators of      *)
(* src/src/mockgen/core.py, with the older copy of the loader in           *)
(* src/generate_mock_output.py, the entry points that take a model name    *)
(* (src/src/mockgen/cli.py) and the scenario generator of                  *)
(* src/src/mockgen/consolidated_generator.py.                              *)
(*                                                                         *)
(* Python values are tagged records.  A Python str is a sequence of        *)
(* one-character strings, so that split(","), strip() and the substring    *)
(* test are computed rather than assumed.  A dict is a sequence of entries *)
(* [k, v] in insertion order (Python dicts iterate in insertion order).    *)
(***************************************************************************)
EXTENDS Integers, Sequences, FiniteSets, TLC

VARIABLES
    pc,              \* position of the run
    variant,         \* "core" (src/src/mockgen/core.py) or "legacy" (src/generate_mock_output.py)
    value,           \* argument of _to_choice_list
    choices,         \* result of _to_choice_list(value)
    again,           \* result of _to_choice_list(",".join(choices))
    data,            \* the parsed JSON document read by load_user_config
    loaded,          \* outcome of load_user_config(data)
    master_data,     \* master template handed to merge_brd_with_master
    brd_data,        \* user mapping handed to merge_brd_with_master
    merge_out,       \* outcome of merge_brd_with_master
    section_options, \* the section handed to a record generator
    merged_config,   \* the mapping of sections handed to generate_model_outputs (the merged
                     \* configuration), to build_output_payload (edits) or to an entry
                     \* point (the loaded configuration)
    selected_models, \* the selected_models argument of generate_model_outputs
    count,           \* the count argument of a generator or of an entry point
    args_model,      \* the model named to an entry point (--model), None if none is
    probability_type, \* the scenario type handed to the consolidated generator
    records          \* outcome of the record generator or of the entry point

vars == <<pc, variant, value, choices, again, data, loaded,
          master_data, brd_data, merge_out, section_options,
          merged_config, selected_models, count, args_model, probability_type, records>>

----------------------------------------------------------------------------
(* Bounds of the model *)

MaxStrLen == 3
MaxListLen == 2
MaxSections == 2
MaxUserSections == 2
MaxPool == 3
MaxCount == 2
MaxCalls == 3

----------------------------------------------------------------------------
(* Python values *)

\* Every value has the same fields, each of one type: the tag t, and the payload in
\* s (the characters of a str), n (a number), b (a bool), l (the elements of a list)
\* or d (the entries of a dict).
Plain(tag) == [t |-> tag, s |-> <<>>, n |-> 0, b |-> FALSE, l |-> <<>>, d |-> <<>>]
Str(s) == [Plain("str") EXCEPT !.s = s]
Num(n) == [Plain("num") EXCEPT !.n = n]
Bool(b) == [Plain("bool") EXCEPT !.b = b]
Null == Plain("null")
List(l) == [Plain("list") EXCEPT !.l = l]
Dict(d) == [Plain("dict") EXCEPT !.d = d]

IsStr(x) == x.t = "str"
IsList(x) == x.t = "list"
IsDict(x) == x.t = "dict"

\* A dict entry: key k (a name) and value v.
Entry(k, x) == [k |-> k, v |-> x]

Keys(d) == [i \in 1..Len(d) |-> d[i].k]
KeySet(d) == {d[i].k : i \in 1..Len(d)}
HasKey(d, k) == \E i \in 1..Len(d) : d[i].k = k
Get(d, k) == d[CHOOSE i \in 1..Len(d) : d[i].k = k].v

\* d[k] = x: an existing key keeps its place, a new key goes last.
Put(d, k, x) ==
    IF HasKey(d, k)
    THEN [i \in 1..Len(d) |-> IF d[i].k = k THEN Entry(k, x) ELSE d[i]]
    ELSE Append(d, Entry(k, x))

----------------------------------------------------------------------------
(* Names (dict keys) and their characters *)

Chars(name) ==
    CASE name = "Model_1" -> <<"M","o","d","e","l","_","1">>
      [] name = "Model_2" -> <<"M","o","d","e","l","_","2">>
      [] name = "Edit_1" -> <<"E","d","i","t","_","1">>
      [] name = "Edit_2" -> <<"E","d","i","t","_","2">>
      [] name = "Model_" -> <<"M","o","d","e","l","_">>
      [] name = "Edit_" -> <<"E","d","i","t","_">>
      [] name = "user_profile" -> <<"u","s","e","r","_","p","r","o","f","i","l","e">>
      [] name = "user_profile_2" -> <<"u","s","e","r","_","p","r","o","f","i","l","e","_","2">>
      [] name = "sec" -> <<"s","e","c">>
      [] name = "other" -> <<"o","t","h","e","r">>
      [] name = "PRICNG_ZIP_STATE" -> <<"P","R","I","C","N","G","_","Z","I","P","_","S","T","A","T","E">>
      [] name = "CLM_TYPE" -> <<"C","L","M","_","T","Y","P","E">>
      [] name = "SRVC_FROM_DT" -> <<"S","R","V","C","_","F","R","O","M","_","D","T">>
      [] name = "HCID" -> <<"H","C","I","D">>
      [] name = "PAT_BRTH_DT" -> <<"P","A","T","_","B","R","T","H","_","D","T">>
      [] name = "PAT_FRST_NME" -> <<"P","A","T","_","F","R","S","T","_","N","M","E">>
      [] name = "PAT_LAST_NME" -> <<"P","A","T","_","L","A","S","T","_","N","M","E">>
      [] name = "ClaimDetails" -> <<"C","l","a","i","m","D","e","t","a","i","l","s">>
      [] name = "proc_cd" -> <<"p","r","o","c","_","c","d">>
      [] name = "BILL_TYPE" -> <<"B","I","L","L","_","T","Y","P","E">>
      [] name = "name" -> <<"n","a","m","e">>
      [] name = "mail_id" -> <<"m","a","i","l","_","i","d">>
      [] name = "address" -> <<"a","d","d","r","e","s","s">>
      [] name = "city" -> <<"c","i","t","y">>
      [] name = "extra" -> <<"e","x","t","r","a">>
      [] name = "Model_1_positive" -> <<"M","o","d","e","l","_","1","_","p","o","s","i","t","i","v","e">>
      [] name = "Model_1_negative" -> <<"M","o","d","e","l","_","1","_","n","e","g","a","t","i","v","e">>
      [] name = "Model_2_positive" -> <<"M","o","d","e","l","_","2","_","p","o","s","i","t","i","v","e">>
      [] name = "Model_1_Positive" -> <<"M","o","d","e","l","_","1","_","P","o","s","i","t","i","v","e">>
      [] name = "MyModel_negative" -> <<"M","y","M","o","d","e","l","_","n","e","g","a","t","i","v","e">>
      [] name = "x_positive_y" -> <<"x","_","p","o","s","i","t","i","v","e","_","y">>
      [] name = "_positive" -> <<"_","p","o","s","i","t","i","v","e">>
      [] name = "_negative" -> <<"_","n","e","g","a","t","i","v","e">>
      [] name = "_exclusion" -> <<"_","e","x","c","l","u","s","i","o","n">>
      [] name = "positive" -> <<"p","o","s","i","t","i","v","e">>
      [] name = "Positive" -> <<"P","o","s","i","t","i","v","e">>
      [] name = "WGS_csbd_medicaid" -> <<"W","G","S","_","c","s","b","d","_","m","e","d","i","c","a","i","d">>
      [] name = "Default Value" -> <<"D","e","f","a","u","l","t"," ","V","a","l","u","e">>
      [] name = "negative" -> <<"n","e","g","a","t","i","v","e">>
      [] name = "exclusion" -> <<"e","x","c","l","u","s","i","o","n">>

\* str.startswith
StartsWith(s, prefix) ==
    /\ Len(prefix) <= Len(s)
    /\ SubSeq(s, 1, Len(prefix)) = prefix

\* "needle in haystack" for two str
Contains(haystack, needle) ==
    \E i \in 0..(Len(haystack) - Len(needle)) :
        SubSeq(haystack, i + 1, i + Len(needle)) = needle

----------------------------------------------------------------------------
(* str(), repr(), strip(), split(), join() *)

Whitespace == {" ", "\t", "\n", "\r"}

DigitChar(d) == <<"0","1","2","3","4","5","6","7","8","9">>[d + 1]

RECURSIVE NatStr(_)
NatStr(n) == IF n < 10 THEN <<DigitChar(n)>> ELSE NatStr(n \div 10) \o <<DigitChar(n % 10)>>

RECURSIVE JoinStr(_, _)
\* sep.join(parts) for a sequence of str
JoinStr(parts, sep) ==
    IF Len(parts) = 0 THEN <<>>
    ELSE IF Len(parts) = 1 THEN parts[1]
    ELSE parts[1] \o sep \o JoinStr(Tail(parts), sep)

RECURSIVE PyRepr(_)
\* repr(x), which str() of a list or of a dict applies to the elements
PyRepr(x) ==
    CASE x.t = "str" -> <<"'">> \o x.s \o <<"'">>
      [] x.t = "num" -> NatStr(x.n)
      [] x.t = "bool" -> IF x.b THEN <<"T","r","u","e">> ELSE <<"F","a","l","s","e">>
      [] x.t = "null" -> <<"N","o","n","e">>
      [] x.t = "list" ->
            <<"[">> \o JoinStr([i \in 1..Len(x.l) |-> PyRepr(x.l[i])], <<",", " ">>) \o <<"]">>
      [] x.t = "dict" ->
            <<"{">>
            \o JoinStr([i \in 1..Len(x.d) |->
                          <<"'">> \o Chars(x.d[i].k) \o <<"'", ":", " ">> \o PyRepr(x.d[i].v)],
                       <<",", " ">>)
            \o <<"}">>

\* str(x)
PyStr(x) == IF x.t = "str" THEN x.s ELSE PyRepr(x)

RECURSIVE LStrip(_)
LStrip(s) == IF Len(s) > 0 /\ s[1] \in Whitespace THEN LStrip(Tail(s)) ELSE s

RECURSIVE RStrip(_)
RStrip(s) ==
    IF Len(s) > 0 /\ s[Len(s)] \in Whitespace THEN RStrip(SubSeq(s, 1, Len(s) - 1)) ELSE s

\* str.strip()
Strip(s) == RStrip(LStrip(s))

RECURSIVE SplitFrom(_, _, _)
\* the parts of s from position i on, cur being the part under construction
SplitFrom(s, i, cur) ==
    IF i > Len(s) THEN <<cur>>
    ELSE IF s[i] = "," THEN <<cur>> \o SplitFrom(s, i + 1, <<>>)
    ELSE SplitFrom(s, i + 1, Append(cur, s[i]))

\* str.split(","): "" gives [""], "a,b" gives ["a", "b"]
SplitComma(s) == SplitFrom(s, 1, <<>>)

\* [v for v in items if v] over a sequence of str
NonEmptyOnly(items) == SelectSeq(items, LAMBDA s : Len(s) > 0)

\* [v.strip() for v in items]
StripAll(items) == [i \in 1..Len(items) |-> Strip(items[i])]

\* A mutant of _to_choice_list: empty strings are dropped before trimming.
ToChoiceListFilterFirst(x) ==
    LET items == IF IsList(x) THEN [i \in 1..Len(x.l) |-> PyStr(x.l[i])]
                 ELSE IF IsStr(x) THEN SplitComma(x.s)
                 ELSE <<PyStr(x)>>
        kept == StripAll(NonEmptyOnly(items))
    IN [i \in 1..Len(kept) |-> Str(kept[i])]

\* A mutant of _to_choice_list: a string value is kept whole instead of split.
ToChoiceListNoSplit(x) ==
    LET items == IF IsList(x) THEN [i \in 1..Len(x.l) |-> Strip(PyStr(x.l[i]))]
                 ELSE <<Strip(PyStr(x))>>
        kept == NonEmptyOnly(items)
    IN [i \in 1..Len(kept) |-> Str(kept[i])]

\* _to_choice_list(value): a Python list of str
_to_choice_list(x) ==
    LET items == IF IsList(x) THEN [i \in 1..Len(x.l) |-> Strip(PyStr(x.l[i]))]
                 ELSE IF IsStr(x) THEN StripAll(SplitComma(x.s))
                 ELSE <<Strip(PyStr(x))>>
        kept == NonEmptyOnly(items)
    IN [i \in 1..Len(kept) |-> Str(kept[i])]

\* ",".join(pool) for a pool of str
JoinPool(pool) == JoinStr([i \in 1..Len(pool) |-> pool[i].s], <<",">>)

----------------------------------------------------------------------------
(* load_user_config *)

REQUIRED_FIELDS_core ==
    <<"PRICNG_ZIP_STATE", "CLM_TYPE", "SRVC_FROM_DT", "HCID",
      "PAT_BRTH_DT", "PAT_FRST_NME", "PAT_LAST_NME", "ClaimDetails">>

REQUIRED_FIELDS_legacy == <<"name", "mail_id", "address", "city">>

RequiredOf(v) == IF v = "core" THEN REQUIRED_FIELDS_core ELSE REQUIRED_FIELDS_legacy

REQUIRED_FIELDS == RequiredOf(variant)

\* The outcome of a call: exc is "none" when it returned (parsed is the result), or
\* the exception raised.  A SystemExit carries its message: head (which message),
\* section (the section it names, if any) and fields (the fields it lists).
Returned(result) ==
    [exc |-> "none", parsed |-> result, head |-> "", section |-> <<>>, fields |-> <<>>]
Raised(e) ==
    [exc |-> e, parsed |-> Null, head |-> "", section |-> <<>>, fields |-> <<>>]
SystemExit(h, sec, fs) ==
    [exc |-> "SystemExit", parsed |-> Null, head |-> h, section |-> sec, fields |-> fs]

\* load_user_config has not been called
NotLoaded == Raised("not called")

\* "field in section_data" can be evaluated: a dict, a str or a list
CanContain(x) == x.t \in {"dict", "str", "list"}

\* "field in section_data": a key of a dict, a substring of a str, an element of a list
FieldIn(field, x) ==
    CASE x.t = "dict" -> HasKey(x.d, field)
      [] x.t = "str" -> Contains(x.s, Chars(field))
      [] x.t = "list" -> \E i \in 1..Len(x.l) : x.l[i] = Str(Chars(field))

RECURSIVE ValidateFrom(_, _, _, _, _)
\* the loop over REQUIRED_FIELDS of one section, from field i on
ValidateFrom(section_data, required, i, missing, normalized) ==
    IF i > Len(required)
    THEN [exc |-> "none", missing |-> missing, normalized |-> normalized]
    ELSE IF ~CanContain(section_data)
    THEN [exc |-> "TypeError", missing |-> missing, normalized |-> normalized]
    ELSE IF ~FieldIn(required[i], section_data)
    THEN ValidateFrom(section_data, required, i + 1, Append(missing, required[i]), normalized)
    ELSE IF ~IsDict(section_data)
    THEN [exc |-> "TypeError", missing |-> missing, normalized |-> normalized]
    ELSE LET found == _to_choice_list(Get(section_data.d, required[i]))
         IN IF Len(found) = 0
            THEN ValidateFrom(section_data, required, i + 1,
                              Append(missing, required[i]), normalized)
            ELSE ValidateFrom(section_data, required, i + 1, missing,
                              Put(normalized, required[i], List(found)))

\* A mutant of ValidateSection: the loop stops at the first missing field.
ValidateSectionFirstOnly(section_data, required) ==
    LET all == ValidateFrom(section_data, required, 1, <<>>, <<>>)
    IN IF all.exc = "none" /\ Len(all.missing) > 1
       THEN [all EXCEPT !.missing = <<all.missing[1]>>]
       ELSE all

\* A mutant of ValidateSection: a field that is present counts, whatever its pool.
ValidateSectionPresenceOnly(section_data, required) ==
    LET all == ValidateFrom(section_data, required, 1, <<>>, <<>>)
    IN IF all.exc = "none" /\ IsDict(section_data)
       THEN [all EXCEPT !.missing =
                SelectSeq(all.missing, LAMBDA f : ~HasKey(section_data.d, f))]
       ELSE all

\* the required fields of one section: those missing or empty, and the pools found
ValidateSection(section_data, required) ==
    ValidateFrom(section_data, required, 1, <<>>, <<>>)

\* one field of a Model_ section: a list is kept as it is, a str is split, trimmed
\* and filtered, anything else becomes [str(values)]
ModelFieldPool(values) ==
    IF IsList(values) THEN values
    ELSE IF IsStr(values) THEN List(_to_choice_list(values))
    ELSE List(<<Str(PyStr(values))>>)

RECURSIVE ModelSectionFrom(_, _, _)
ModelSectionFrom(model_data, i, section) ==
    IF i > Len(model_data) THEN section
    ELSE ModelSectionFrom(model_data, i + 1,
                          Put(section, model_data[i].k, ModelFieldPool(model_data[i].v)))

RECURSIVE LoadModelsFrom(_, _, _)
\* the Model_ branch: every top-level entry whose value is a dict
LoadModelsFrom(d, i, parsed) ==
    IF i > Len(d) THEN Returned(Dict(parsed))
    ELSE IF ~IsDict(d[i].v) THEN LoadModelsFrom(d, i + 1, parsed)
    ELSE LoadModelsFrom(d, i + 1,
                        Put(parsed, d[i].k, Dict(ModelSectionFrom(d[i].v.d, 1, <<>>))))

RECURSIVE LoadEditsFrom(_, _, _, _)
\* the Edit_ branch: every top-level entry whose key starts with Edit_
LoadEditsFrom(d, required, i, parsed) ==
    IF i > Len(d)
    THEN IF Len(parsed) = 0 THEN SystemExit("No valid 'Edit_X' sections found", <<>>, <<>>)
         ELSE Returned(Dict(parsed))
    ELSE IF ~StartsWith(Chars(d[i].k), Chars("Edit_"))
    THEN LoadEditsFrom(d, required, i + 1, parsed)
    ELSE LET checked == ValidateSection(d[i].v, required)
         IN IF checked.exc # "none" THEN Raised(checked.exc)
            ELSE IF Len(checked.missing) > 0
            THEN SystemExit("Section is missing required non-empty fields",
                            <<d[i].k>>, checked.missing)
            ELSE LoadEditsFrom(d, required, i + 1,
                               Put(parsed, d[i].k, Dict(checked.normalized)))

RECURSIVE LoadSectionsFrom(_, _, _, _)
\* the generic branch: every top-level entry (all of them are dicts)
LoadSectionsFrom(d, required, i, parsed) ==
    IF i > Len(d)
    THEN IF Len(parsed) = 0 THEN SystemExit("No valid sections found", <<>>, <<>>)
         ELSE Returned(Dict(parsed))
    ELSE IF ~IsDict(d[i].v)
    THEN LoadSectionsFrom(d, required, i + 1, parsed)
    ELSE LET checked == ValidateSection(d[i].v, required)
         IN IF checked.exc # "none" THEN Raised(checked.exc)
            ELSE IF Len(checked.missing) > 0
            THEN SystemExit("Section is missing required non-empty fields",
                            <<d[i].k>>, checked.missing)
            ELSE LoadSectionsFrom(d, required, i + 1,
                                  Put(parsed, d[i].k, Dict(checked.normalized)))

\* A mutant of LoadSingleSection: the document is stored as it is written, its
\* values not coerced.
LoadSingleSectionAsWritten(doc, required) ==
    LET checked == ValidateFrom(doc, required, 1, <<>>, <<>>)
    IN IF checked.exc # "none" THEN Raised(checked.exc)
       ELSE IF Len(checked.missing) > 0
       THEN SystemExit("Configuration is missing required non-empty fields",
                       <<>>, checked.missing)
       ELSE Returned(Dict(<<Entry("Edit_1", doc)>>))

\* the last branch: the document itself is the one section, stored as Edit_1
LoadSingleSection(doc, required) ==
    LET checked == ValidateSection(doc, required)
    IN IF checked.exc # "none" THEN Raised(checked.exc)
       ELSE IF Len(checked.missing) > 0
       THEN SystemExit("Configuration is missing required non-empty fields",
                       <<>>, checked.missing)
       ELSE Returned(Dict(<<Entry("Edit_1", Dict(checked.normalized))>>))

AnyKeyStartsWith(d, prefix) ==
    \E i \in 1..Len(d) : StartsWith(Chars(d[i].k), Chars(prefix))

\* A mutant of load_user_config: the Model_ branch is never taken.
LoadWithoutModelBranch(doc, v) ==
    IF ~IsDict(doc) THEN Raised("AttributeError")
    ELSE IF AnyKeyStartsWith(doc.d, "Edit_")
    THEN LoadEditsFrom(doc.d, RequiredOf(v), 1, <<>>)
    ELSE IF \A i \in 1..Len(doc.d) : IsDict(doc.d[i].v)
    THEN LoadSectionsFrom(doc.d, RequiredOf(v), 1, <<>>)
    ELSE LoadSingleSection(doc, RequiredOf(v))

\* load_user_config applied to the parsed document doc, in the copy v of the loader
load_user_config(doc, v) ==
    IF ~IsDict(doc) THEN Raised("AttributeError")
    ELSE IF v = "core" /\ AnyKeyStartsWith(doc.d, "Model_")
    THEN LoadModelsFrom(doc.d, 1, <<>>)
    ELSE IF AnyKeyStartsWith(doc.d, "Edit_")
    THEN LoadEditsFrom(doc.d, RequiredOf(v), 1, <<>>)
    ELSE IF \A i \in 1..Len(doc.d) : IsDict(doc.d[i].v)
    THEN LoadSectionsFrom(doc.d, RequiredOf(v), 1, <<>>)
    ELSE LoadSingleSection(doc, RequiredOf(v))

----------------------------------------------------------------------------
(* merge_brd_with_master *)

RECURSIVE PutAll(_, _, _)
\* for field, values in entries.items(): d[field] = values, from entry i on
PutAll(d, entries, i) ==
    IF i > Len(entries) THEN d
    ELSE PutAll(Put(d, entries[i].k, entries[i].v), entries, i + 1)

\* The outcome of the merge: exc is "none" when it returned; merged is the mapping
\* returned, master the master mapping as the call left it.
MergeDone(e, result, m) == [exc |-> e, merged |-> result, master |-> m]

\* merge_brd_with_master has not been called
NotMerged == MergeDone("not called", Null, Null)

\* A mutant of MergeSection: the master defaults are written after the user fields.
MergeSectionMasterWins(target, profile, model_data) ==
    PutAll(PutAll(target, model_data, 1), profile, 1)

\* the fields of one merged section: the master defaults, then the user's fields
MergeSection(target, profile, model_data) ==
    PutAll(PutAll(target, profile, 1), model_data, 1)

RECURSIVE MergeFrom(_, _, _, _)
\* The loop over brd_data from entry i on.  merged = master_data.copy() is a shallow
\* copy: under a key of the master, merged and master_data hold the same dict
\* object, so a write to merged[key][field] is a write to master_data[key][field].
\* m is the master mapping with the writes made so far; fresh holds the sections
\* created for keys the master does not have.
MergeFrom(m, fresh, brd, i) ==
    IF i > Len(brd) THEN MergeDone("none", Dict(m \o fresh), Dict(m))
    ELSE
      LET model_key == brd[i].k
          model_data == brd[i].v
          shared == HasKey(m, model_key)
          target == IF shared THEN Get(m, model_key) ELSE Dict(<<>>)
          hasProfile == HasKey(m, "user_profile")
          profile == IF hasProfile THEN Get(m, "user_profile") ELSE Dict(<<>>)
      IN IF hasProfile /\ ~IsDict(profile)
         THEN MergeDone("AttributeError", Null, Dict(m))
         ELSE IF Len(profile.d) > 0 /\ ~IsDict(target)
         THEN MergeDone("TypeError", Null, Dict(m))
         ELSE IF ~IsDict(model_data)
         THEN MergeDone("AttributeError", Null,
                        IF shared /\ IsDict(target)
                        THEN Dict(Put(m, model_key, Dict(PutAll(target.d, profile.d, 1))))
                        ELSE Dict(m))
         ELSE IF Len(model_data.d) > 0 /\ ~IsDict(target)
         THEN MergeDone("TypeError", Null, Dict(m))
         ELSE IF ~IsDict(target)
         THEN MergeFrom(m, fresh, brd, i + 1)
         ELSE LET section == Dict(MergeSection(target.d, profile.d, model_data.d))
              IN IF shared
                 THEN MergeFrom(Put(m, model_key, section), fresh, brd, i + 1)
                 ELSE MergeFrom(m, Put(fresh, model_key, section), brd, i + 1)

\* A mutant of merge_brd_with_master: merged starts empty, not as a copy of the master.
MergeWithoutMasterCopy(master, brd) ==
    LET out == MergeFrom(<<>>, <<>>, brd.d, 1)
    IN MergeDone(out.exc, out.merged, master)

\* merge_brd_with_master(master_data, brd_data), both of them mappings
merge_brd_with_master(master, brd) == MergeFrom(master.d, <<>>, brd.d, 1)

----------------------------------------------------------------------------
(* build_indexed_records *)

\* The outcome of a generator: op is the function called, exc is "none" when it
\* returned, out is the value returned.
Generated(f, result) == [op |-> f, exc |-> "none", out |-> result]
GenRaised(f, e) == [op |-> f, exc |-> e, out |-> Null]

\* no generator has been called
NotGenerated == GenRaised("", "not called")

\* len(x) is defined for a list, a str and a dict
HasLen(x) == x.t \in {"list", "str", "dict"}
\* A mutant of PyLen: a list of mappings counts the values of its first mapping's
\* first pool instead of its own elements.
PyLenCountsNested(x) ==
    IF x.t = "list" /\ Len(x.l) > 0 /\ x.l[1].t = "dict" /\ Len(x.l[1].d) > 0
         /\ x.l[1].d[1].v.t = "list"
    THEN Len(x.l[1].d[1].v.l)
    ELSE CASE x.t = "list" -> Len(x.l) [] x.t = "str" -> Len(x.s) [] x.t = "dict" -> Len(x.d)

PyLen(x) == CASE x.t = "list" -> Len(x.l) [] x.t = "str" -> Len(x.s) [] x.t = "dict" -> Len(x.d)

RECURSIVE LengthsFrom(_, _, _, _)
\* [len(section_options[field]) for field in REQUIRED_FIELDS], from field i on
LengthsFrom(section, required, i, lengths) ==
    IF i > Len(required) THEN [exc |-> "none", lengths |-> lengths]
    ELSE IF ~IsDict(section) THEN [exc |-> "TypeError", lengths |-> lengths]
    ELSE IF ~HasKey(section.d, required[i]) THEN [exc |-> "KeyError", lengths |-> lengths]
    ELSE IF ~HasLen(Get(section.d, required[i])) THEN [exc |-> "TypeError", lengths |-> lengths]
    ELSE LengthsFrom(section, required, i + 1,
                     Append(lengths, PyLen(Get(section.d, required[i]))))

\* max(lengths) of a non-empty list of numbers
MaxOf(lengths) ==
    CHOOSE m \in {lengths[i] : i \in 1..Len(lengths)} : \A i \in 1..Len(lengths) : lengths[i] <= m

\* A mutant of PickIndexed: the index is clamped to the last element, not cycled.
PickClamped(pool, idx) == IF idx < Len(pool) THEN pool[idx + 1] ELSE pool[Len(pool)]

\* values[idx % len(values)] for the elements of a non-empty list
PickIndexed(pool, idx) == pool[(idx % Len(pool)) + 1]

\* A mutant of NestedIndexed: a nested pool always gives its first element.
NestedIndexedFirst(nested_values, idx) ==
    IF IsList(nested_values) /\ Len(nested_values.l) > 0
    THEN nested_values.l[1]
    ELSE IF IsStr(nested_values) THEN nested_values
    ELSE Str(<<>>)

\* one nested field of a claim detail, selected by index
NestedIndexed(nested_values, idx) ==
    IF IsList(nested_values) /\ Len(nested_values.l) > 0
    THEN PickIndexed(nested_values.l, idx)
    ELSE IF IsStr(nested_values) THEN nested_values
    ELSE Str(<<>>)

\* processed_claim for one element of ClaimDetails
ClaimIndexed(claim_detail, idx) ==
    Dict([j \in 1..Len(claim_detail.d) |->
            Entry(claim_detail.d[j].k, NestedIndexed(claim_detail.d[j].v, idx))])

\* ClaimDetails is handled as nested: a non-empty list whose first element is a dict
IsNestedField(field, values) ==
    /\ field = "ClaimDetails"
    /\ IsList(values)
    /\ Len(values.l) > 0
    /\ IsDict(values.l[1])

\* record[field] of the record of index idx
IndexedField(field, values, idx) ==
    IF IsList(values) /\ Len(values.l) > 0
    THEN IF IsNestedField(field, values)
         THEN List([c \in 1..Len(values.l) |-> ClaimIndexed(values.l[c], idx)])
         ELSE PickIndexed(values.l, idx)
    ELSE Str(<<>>)

\* claim_detail.items() fails on an element of a nested ClaimDetails that is no dict
NestedRaises(section) ==
    \E j \in 1..Len(section.d) :
        /\ IsNestedField(section.d[j].k, section.d[j].v)
        /\ \E c \in 1..Len(section.d[j].v.l) : ~IsDict(section.d[j].v.l[c])

\* the record of index idx, core.py: one entry per field of the section
IndexedRecord(section, idx) ==
    Dict([j \in 1..Len(section.d) |->
            Entry(section.d[j].k, IndexedField(section.d[j].k, section.d[j].v, idx))])

\* section_options[f][idx % len(section_options[f])] of generate_mock_output.py fails
\* on an empty pool (modulo by zero) and on a dict (no integer key)
LegacyFieldFails(section, n) ==
    LET pool == Get(section.d, REQUIRED_FIELDS_legacy[n])
    IN PyLen(pool) = 0 \/ IsDict(pool)

\* the exception of the first of the four fields that fails, "none" if none does
LegacyFailure(section) ==
    LET failing == {n \in 1..Len(REQUIRED_FIELDS_legacy) : LegacyFieldFails(section, n)}
        first == CHOOSE n \in failing : \A m \in failing : n <= m
    IN IF failing = {} THEN "none"
       ELSE IF PyLen(Get(section.d, REQUIRED_FIELDS_legacy[first])) = 0 THEN "ZeroDivisionError"
       ELSE "KeyError"

\* one element of a list or one character of a str
PyItem(x, idx) == IF IsStr(x) THEN Str(<<x.s[idx + 1]>>) ELSE x.l[idx + 1]

\* the record of index idx, generate_mock_output.py: the four fields by name
LegacyIndexedRecord(section, idx) ==
    Dict([n \in 1..Len(REQUIRED_FIELDS_legacy) |->
            LET pool == Get(section.d, REQUIRED_FIELDS_legacy[n])
            IN Entry(REQUIRED_FIELDS_legacy[n], PyItem(pool, idx % PyLen(pool)))])

\* A mutant of NumRecords: the shortest required pool decides the number of records.
NumRecordsMin(lengths) ==
    CHOOSE m \in {lengths[i] : i \in 1..Len(lengths)} : \A i \in 1..Len(lengths) : m <= lengths[i]

\* num_records = max(lengths)
NumRecords(lengths) == MaxOf(lengths)

\* build_indexed_records(section_options), in the copy v of the generator
build_indexed_records(section, v) ==
    LET measured == LengthsFrom(section, RequiredOf(v), 1, <<>>)
        num_records == NumRecords(measured.lengths)
    IN IF measured.exc # "none" THEN GenRaised("build_indexed_records", measured.exc)
       ELSE IF num_records = 0 THEN Generated("build_indexed_records", List(<<>>))
       ELSE IF v = "core"
       THEN IF NestedRaises(section)
            THEN GenRaised("build_indexed_records", "AttributeError")
            ELSE Generated("build_indexed_records",
                           List([r \in 1..num_records |-> IndexedRecord(section, r - 1)]))
       ELSE IF LegacyFailure(section) # "none"
       THEN GenRaised("build_indexed_records", LegacyFailure(section))
       ELSE Generated("build_indexed_records",
                      List([r \in 1..num_records |-> LegacyIndexedRecord(section, r - 1)]))

----------------------------------------------------------------------------
(* The random generators: every possible draw of random.choice is an outcome *)

\* random.choice(values) of a non-empty list
Choice(pool) == {pool[i] : i \in 1..Len(pool)}

RECURSIVE EntryProducts(_, _)
\* the dicts built by drawing one value per key: options[i].v is the set of the
\* values that options[i].k can receive
EntryProducts(options, i) ==
    IF i > Len(options) THEN {<<>>}
    ELSE { <<Entry(options[i].k, x)>> \o rest :
             x \in options[i].v, rest \in EntryProducts(options, i + 1) }

RECURSIVE SeqProducts(_, _)
\* the lists built by drawing element i from options[i]
SeqProducts(options, i) ==
    IF i > Len(options) THEN {<<>>}
    ELSE { <<x>> \o rest : x \in options[i], rest \in SeqProducts(options, i + 1) }

\* processed_claim[nested_field]
NestedRandom(nested_values) ==
    IF IsList(nested_values) /\ Len(nested_values.l) > 0 THEN Choice(nested_values.l)
    ELSE IF IsStr(nested_values) THEN {nested_values}
    ELSE {Str(<<>>)}

\* processed_claim for one element of ClaimDetails
ClaimRandom(claim_detail) ==
    { Dict(e) : e \in EntryProducts([j \in 1..Len(claim_detail.d) |->
                        Entry(claim_detail.d[j].k, NestedRandom(claim_detail.d[j].v))], 1) }

\* record[field]: str_verbatim tells whether the function has the branch
\* "elif isinstance(values, str)"
FieldRandom(field, values, str_verbatim) ==
    IF IsList(values) /\ Len(values.l) > 0
    THEN IF IsNestedField(field, values)
         THEN { List(l) : l \in SeqProducts([c \in 1..Len(values.l) |->
                                               ClaimRandom(values.l[c])], 1) }
         ELSE Choice(values.l)
    ELSE IF str_verbatim /\ IsStr(values) THEN {values}
    ELSE {Str(<<>>)}

\* the records that one pass over the fields of a section can build
RandomRecords(section, str_verbatim) ==
    { Dict(e) : e \in EntryProducts([j \in 1..Len(section.d) |->
                        Entry(section.d[j].k,
                              FieldRandom(section.d[j].k, section.d[j].v, str_verbatim))], 1) }

\* the pass over a section fails: .items() of a value that is no dict
SectionRaises(section) == ~IsDict(section) \/ NestedRaises(section)

\* generate_model_records(model_data, count)
generate_model_records(model_data, n) ==
    IF n <= 0 THEN {Generated("generate_model_records", List(<<>>))}
    ELSE IF SectionRaises(model_data)
    THEN {GenRaised("generate_model_records", "AttributeError")}
    ELSE { Generated("generate_model_records", List(l)) :
             l \in SeqProducts([r \in 1..n |-> RandomRecords(model_data, TRUE)], 1) }

\* random.choice(edit_options[f]) of generate_mock_output.py: the exception of
\* field n, "none" if it returns
LegacyChoiceFailure(edit_options, n) ==
    IF ~HasKey(edit_options.d, REQUIRED_FIELDS_legacy[n]) THEN "KeyError"
    ELSE LET pool == Get(edit_options.d, REQUIRED_FIELDS_legacy[n])
         IN IF ~HasLen(pool) THEN "TypeError"
            ELSE IF PyLen(pool) = 0 THEN "IndexError"
            ELSE IF IsDict(pool) THEN "KeyError"
            ELSE "none"

\* every element of a list, every character of a str
PyChoice(x) == {PyItem(x, i) : i \in 0..(PyLen(x) - 1)}

\* _select_random_record_from_edit(edit_options), in the copy v of the generator
_select_random_record_from_edit(edit_options, v) ==
    IF v = "core"
    THEN IF SectionRaises(edit_options)
         THEN {GenRaised("_select_random_record_from_edit", "AttributeError")}
         ELSE { Generated("_select_random_record_from_edit", r) :
                  r \in RandomRecords(edit_options, FALSE) }
    ELSE IF ~IsDict(edit_options)
    THEN {GenRaised("_select_random_record_from_edit", "TypeError")}
    ELSE LET failing == {n \in 1..Len(REQUIRED_FIELDS_legacy) :
                            LegacyChoiceFailure(edit_options, n) # "none"}
             first == CHOOSE n \in failing : \A m \in failing : n <= m
         IN IF failing # {}
            THEN {GenRaised("_select_random_record_from_edit",
                            LegacyChoiceFailure(edit_options, first))}
            ELSE { Generated("_select_random_record_from_edit", Dict(e)) :
                     e \in EntryProducts([n \in 1..Len(REQUIRED_FIELDS_legacy) |->
                             Entry(REQUIRED_FIELDS_legacy[n],
                                   PyChoice(Get(edit_options.d, REQUIRED_FIELDS_legacy[n])))], 1) }

\* model in merged_config, for a model name given as a str
InConfig(merged_config_, model) ==
    IsStr(model) /\ \E j \in 1..Len(merged_config_.d) : Chars(merged_config_.d[j].k) = model.s

\* the key of merged_config that equals the str model
KeyOf(merged_config_, model) ==
    merged_config_.d[CHOOSE j \in 1..Len(merged_config_.d) :
                        Chars(merged_config_.d[j].k) = model.s].k

\* A mutant of DefaultModels: only the key "user_profile" itself is left out.
DefaultModelsExact(merged_config_) ==
    LET RECURSIVE From(_)
        From(j) ==
            IF j > Len(merged_config_.d) THEN <<>>
            ELSE IF merged_config_.d[j].k = "user_profile" THEN From(j + 1)
            ELSE <<Str(Chars(merged_config_.d[j].k))>> \o From(j + 1)
    IN From(1)

\* [key for key in merged_config.keys() if not key.startswith("user_profile")]
DefaultModels(merged_config_) ==
    LET RECURSIVE From(_)
        From(j) ==
            IF j > Len(merged_config_.d) THEN <<>>
            ELSE IF StartsWith(Chars(merged_config_.d[j].k), Chars("user_profile"))
            THEN From(j + 1)
            ELSE <<Str(Chars(merged_config_.d[j].k))>> \o From(j + 1)
    IN From(1)

RECURSIVE OutputsFrom(_, _, _, _)
\* the loop "for model in selected_models" from model i on: the outputs it can build
OutputsFrom(merged_config_, models, i, outputs) ==
    IF i > Len(models) THEN {outputs}
    ELSE IF ~InConfig(merged_config_, models[i])
    THEN OutputsFrom(merged_config_, models, i + 1, outputs)
    ELSE LET key == KeyOf(merged_config_, models[i])
         IN UNION { OutputsFrom(merged_config_, models, i + 1, Put(outputs, key, r)) :
                      r \in RandomRecords(Get(merged_config_.d, key), TRUE) }

\* A mutant of generate_model_outputs: a selected name that is no key of the
\* configuration is an error.
GenerateOutputsAbsentFatal(merged_config_, selected_models_) ==
    LET models == IF selected_models_ = Null THEN DefaultModels(merged_config_)
                  ELSE selected_models_.l
    IN IF \E i \in 1..Len(models) : ~InConfig(merged_config_, models[i])
       THEN {GenRaised("generate_model_outputs", "KeyError")}
       ELSE IF \E i \in 1..Len(models) :
                 SectionRaises(Get(merged_config_.d, KeyOf(merged_config_, models[i])))
       THEN {GenRaised("generate_model_outputs", "AttributeError")}
       ELSE { Generated("generate_model_outputs", Dict(o)) :
                o \in OutputsFrom(merged_config_, models, 1, <<>>) }

\* generate_model_outputs(merged_config, selected_models)
generate_model_outputs(merged_config_, selected_models_) ==
    LET models == IF selected_models_ = Null THEN DefaultModels(merged_config_)
                  ELSE selected_models_.l
    IN IF \E i \in 1..Len(models) :
             /\ InConfig(merged_config_, models[i])
             /\ SectionRaises(Get(merged_config_.d, KeyOf(merged_config_, models[i])))
       THEN {GenRaised("generate_model_outputs", "AttributeError")}
       ELSE { Generated("generate_model_outputs", Dict(o)) :
                o \in OutputsFrom(merged_config_, models, 1, <<>>) }

----------------------------------------------------------------------------
(* build_output_payload *)

\* f"{edit_key}_output_{i}"
OutputKey(edit_key, i) ==
    Chars(edit_key) \o <<"_", "o", "u", "t", "p", "u", "t", "_">> \o NatStr(i)

\* A payload is a dict whose keys are built at run time.  It is held as the list of
\* its items in insertion order, each item the mapping {key, value}.
Item(key, x) == Dict(<<Entry("key", Str(key)), Entry("value", x)>>)

\* payload[key] = x: an existing key keeps its place, a new key goes last
PutItem(items, key, x) ==
    IF \E n \in 1..Len(items) : Get(items[n].d, "key") = Str(key)
    THEN [n \in 1..Len(items) |->
            IF Get(items[n].d, "key") = Str(key) THEN Item(key, x) ELSE items[n]]
    ELSE Append(items, Item(key, x))

\* _select_random_edit_and_record(edits), in the copy v of the generator: every
\* outcome, as the exception raised ("none" if none), the section chosen and the
\* record drawn from it
_select_random_edit_and_record(edits, v) ==
    IF Len(edits.d) = 0
    THEN {[exc |-> "IndexError", edit_key |-> "", record |-> Null]}
    ELSE UNION { { [exc |-> r.exc, edit_key |-> edit_key, record |-> r.out] :
                     r \in _select_random_record_from_edit(Get(edits.d, edit_key), v) } :
                 edit_key \in KeySet(edits.d) }

RECURSIVE PayloadsFrom(_, _, _, _, _)
\* the loop "for i in range(1, max(1, count) + 1)" from i on
PayloadsFrom(edits, v, i, last, items) ==
    IF i > last THEN {Generated("build_output_payload", List(items))}
    ELSE UNION { IF sel.exc # "none" THEN {GenRaised("build_output_payload", sel.exc)}
                 ELSE PayloadsFrom(edits, v, i + 1, last,
                                   PutItem(items, OutputKey(sel.edit_key, i), sel.record)) :
                 sel \in _select_random_edit_and_record(edits, v) }

\* build_output_payload(edits, count), in the copy v of the generator
build_output_payload(edits, n, v) ==
    PayloadsFrom(edits, v, 1, IF n > 1 THEN n ELSE 1, <<>>)

----------------------------------------------------------------------------
(* ConsolidatedGenerator.generate_standard_format *)

ScenarioTypes == {"positive", "negative", "exclusion"}

\* f"{probability_type.lower()}_data"
DataKey(scenario) ==
    CASE scenario = "positive" -> "positive_data"
      [] scenario = "negative" -> "negative_data"
      [] scenario = "exclusion" -> "exclusion_data"

\* processed_claim[claim_field]: a draw from a non-empty list, any other value as it is
StandardNested(claim_values) ==
    IF IsList(claim_values) /\ Len(claim_values.l) > 0 THEN Choice(claim_values.l)
    ELSE {claim_values}

\* processed_claim of values[0]
StandardClaim(claim_detail) ==
    { Dict(e) : e \in EntryProducts([j \in 1..Len(claim_detail.d) |->
                        Entry(claim_detail.d[j].k, StandardNested(claim_detail.d[j].v))], 1) }

\* processed_data[field]
StandardField(field, values) ==
    IF field = "ClaimDetails"
    THEN IF IsList(values) /\ Len(values.l) > 0 /\ IsDict(values.l[1])
         THEN { List(<<c>>) : c \in StandardClaim(values.l[1]) }
         ELSE {values}
    ELSE IF IsList(values) /\ Len(values.l) > 0
    THEN { List(<<x>>) : x \in Choice(values.l) }
    ELSE {values}

\* generate_standard_format(data, probability_type)
generate_standard_format(section, scenario) ==
    IF ~IsDict(section)
    THEN {GenRaised("generate_standard_format", "AttributeError")}
    ELSE { Generated("generate_standard_format", Dict(<<Entry(DataKey(scenario), Dict(e))>>)) :
             e \in EntryProducts([j \in 1..Len(section.d) |->
                     Entry(section.d[j].k,
                           StandardField(section.d[j].k, section.d[j].v))], 1) }

----------------------------------------------------------------------------
(* The entry points that take the name of one model or section *)

\* How a run ends: the exception that ended it ("none" if it returned), the message
\* of a SystemExit or the warning printed (None if neither), and the payloads written.
Ran(f, e, message, written) ==
    [op |-> f, exc |-> e,
     out |-> Dict(<<Entry("message", message), Entry("written", List(written))>>)]

\* the path of the configuration file, as the messages print it
ConfigPath == <<"u", "s", "e", "r", "_", "i", "n", "p", "u", "t", ".", "j", "s", "o", "n">>

\* f"{args.model}_record_{i}"
RecordKey(model, i) == model \o <<"_", "r", "e", "c", "o", "r", "d", "_">> \o NatStr(i)

\* a payload of one record under one key
OnePayload(key, record) == List(<<Item(key, record)>>)

\* ", ".join(user_data.keys())
Available(user_data) ==
    JoinStr([j \in 1..Len(user_data.d) |-> Chars(user_data.d[j].k)], <<",", " ">>)

\* f"Model '{args.model}' not found in '{config_path}'. Available models: {available}"
\* (what = "Model", listed = "models"), and the same message of
\* generate_mock_output.main (what = "Section", listed = "sections")
NotFound(what, model, listed, available) ==
    what \o <<" ", "'">> \o model \o <<"'", " ", "n", "o", "t", " ", "f", "o", "u", "n", "d", " ", "i", "n", " ", "'">> \o ConfigPath
         \o <<"'", ".", " ", "A", "v", "a", "i", "l", "a", "b", "l", "e", " ">> \o listed \o <<":", " ">> \o available

\* f"No records could be built for model '{args.model}'. Ensure all required fields
\* have values." (what = "model"; "section" in generate_mock_output.main)
NoRecords(what, model) ==
    <<"N", "o", " ", "r", "e", "c", "o", "r", "d", "s", " ", "c", "o", "u", "l", "d", " ", "b", "e", " ", "b", "u", "i", "l", "t", " ", "f", "o", "r", " ">> \o what \o <<" ", "'">> \o model
        \o <<"'", ".", " ", "E", "n", "s", "u", "r", "e", " ", "a", "l", "l", " ", "r", "e", "q", "u", "i", "r", "e", "d", " ", "f", "i", "e", "l", "d", "s", " ", "h", "a", "v", "e", " ", "v", "a", "l", "u", "e", "s", ".">>

\* cli.main with --model, from the configuration that load_user_config returned
cli_main(user_data, model, n) ==
    IF ~InConfig(user_data, model)
    THEN {Ran("cli.main", "SystemExit",
              Str(NotFound(<<"M", "o", "d", "e", "l">>, model.s, <<"m", "o", "d", "e", "l", "s">>, Available(user_data))), <<>>)}
    ELSE LET model_data == Get(user_data.d, KeyOf(user_data, model))
         IN IF \E j \in 1..Len(model_data.d) : IsList(model_data.d[j].v)
            THEN { IF r.exc # "none" THEN Ran("cli.main", r.exc, Null, <<>>)
                   ELSE Ran("cli.main", "none", Null,
                            [i \in 1..Len(r.out.l) |->
                               OnePayload(RecordKey(model.s, i), r.out.l[i])]) :
                   r \in generate_model_records(model_data, n) }
            ELSE LET r == build_indexed_records(model_data, "core")
                 IN IF r.exc # "none" THEN {Ran("cli.main", r.exc, Null, <<>>)}
                    ELSE IF Len(r.out.l) = 0
                    THEN {Ran("cli.main", "SystemExit",
                              Str(NoRecords(<<"m", "o", "d", "e", "l">>, model.s)), <<>>)}
                    ELSE {Ran("cli.main", "none", Null,
                              [i \in 1..Len(r.out.l) |->
                                 OnePayload(OutputKey(KeyOf(user_data, model), i),
                                            r.out.l[i])])}

\* generate_mock_output.main with --model, from the configuration that
\* load_user_config returned
legacy_main(edits, model) ==
    IF ~InConfig(edits, model)
    THEN {Ran("generate_mock_output.main", "SystemExit",
              Str(NotFound(<<"S", "e", "c", "t", "i", "o", "n">>, model.s, <<"s", "e", "c", "t", "i", "o", "n", "s">>, Available(edits))), <<>>)}
    ELSE LET r == build_indexed_records(Get(edits.d, KeyOf(edits, model)), "legacy")
         IN IF r.exc # "none" THEN {Ran("generate_mock_output.main", r.exc, Null, <<>>)}
            ELSE IF Len(r.out.l) = 0
            THEN {Ran("generate_mock_output.main", "SystemExit",
                      Str(NoRecords(<<"s", "e", "c", "t", "i", "o", "n">>, model.s)), <<>>)}
            ELSE {Ran("generate_mock_output.main", "none", Null,
                      [i \in 1..Len(r.out.l) |->
                         OnePayload(OutputKey(KeyOf(edits, model), i), r.out.l[i])])}

Lowercase == <<"a", "b", "c", "d", "e", "f", "g", "h", "i", "j", "k", "l", "m", "n", "o", "p", "q", "r", "s", "t", "u", "v", "w", "x", "y", "z">>
Uppercase == <<"A", "B", "C", "D", "E", "F", "G", "H", "I", "J", "K", "L", "M", "N", "O", "P", "Q", "R", "S", "T", "U", "V", "W", "X", "Y", "Z">>

\* str.lower()
ToLower(s) ==
    [n \in 1..Len(s) |->
        IF \E c \in 1..26 : Uppercase[c] = s[n]
        THEN Lowercase[CHOOSE c \in 1..26 : Uppercase[c] = s[n]] ELSE s[n]]

RECURSIVE RemoveAll(_, _)
\* s.replace(old, ""), for a non-empty old: the occurrences found from the left
RemoveAll(s, old) ==
    IF Len(s) < Len(old) THEN s
    ELSE IF SubSeq(s, 1, Len(old)) = old THEN RemoveAll(SubSeq(s, Len(old) + 1, Len(s)), old)
    ELSE <<s[1]>> \o RemoveAll(Tail(s), old)

ScenarioSuffixes == <<"_positive", "_negative", "_exclusion">>

\* the name that _get_model_names adds to base_models for one key
BaseName(key) ==
    IF \E n \in 1..3 : Contains(ToLower(key), Chars(ScenarioSuffixes[n]))
    THEN RemoveAll(RemoveAll(RemoveAll(ToLower(key), Chars("_positive")),
                             Chars("_negative")), Chars("_exclusion"))
    ELSE key

\* ConsolidatedGenerator._get_model_names(): the set base_models
_get_model_names(config) == { BaseName(Chars(config.d[j].k)) : j \in 1..Len(config.d) }

\* str.capitalize(): the first character in upper case, the others in lower case
Capitalize(s) ==
    LET To(c, from, to) ==
            IF \E n \in 1..26 : from[n] = c
            THEN to[CHOOSE n \in 1..26 : from[n] = c] ELSE c
    IN [n \in 1..Len(s) |-> IF n = 1 THEN To(s[n], Lowercase, Uppercase)
                            ELSE To(s[n], Uppercase, Lowercase)]

\* ConsolidatedGenerator._get_probability_data(model_name, probability_type) for a
\* probability_type in lower case: self.config[key] of the first key found, or None
_get_probability_data(config, model_name, probability_type_) ==
    LET suffix == <<"_">> \o Chars(probability_type_)
        Found(key) == \E j \in 1..Len(config.d) : Chars(config.d[j].k) = key
        At(key) == config.d[CHOOSE j \in 1..Len(config.d) : Chars(config.d[j].k) = key].v
    IN IF Found(model_name \o suffix) THEN At(model_name \o suffix)
       ELSE IF Found(Capitalize(model_name) \o suffix) THEN At(Capitalize(model_name) \o suffix)
       ELSE Null

\* "not data"
Falsy(x) ==
    CASE x.t = "null" -> TRUE
      [] x.t = "bool" -> ~x.b
      [] x.t = "num" -> x.n = 0
      [] OTHER -> PyLen(x) = 0

\* ConsolidatedGenerator.generate_scenarios(scenario_type, model, count) with a model
\* named, split and wgs_format left False: one file of the output, or of the list of
\* count outputs when count > 1
generate_scenarios(config, scenario_type, model, n) ==
    LET data_ == _get_probability_data(config, model.s, scenario_type)
    IN IF Falsy(data_)
       THEN {Ran("generate_scenarios", "none",
                 Str(<<"W", "a", "r", "n", "i", "n", "g", ":", " ", "N", "o", " ">> \o Chars(scenario_type)
                     \o <<" ", "d", "a", "t", "a", " ", "f", "o", "u", "n", "d", " ", "f", "o", "r", " ">> \o model.s), <<>>)}
       ELSE IF \E o \in generate_standard_format(data_, scenario_type) : o.exc # "none"
       THEN {Ran("generate_scenarios", "AttributeError", Null, <<>>)}
       ELSE IF n > 1
       THEN { Ran("generate_scenarios", "none", Null, <<List(l)>>) :
                l \in SeqProducts([i \in 1..n |->
                        {o.out : o \in generate_standard_format(data_, scenario_type)}], 1) }
       ELSE { Ran("generate_scenarios", "none", Null, <<o.out>>) :
                o \in generate_standard_format(data_, scenario_type) }

\* template_fields of generate_wgs_format
template_fields ==
    <<"first_proc_cd", "last_proc_cd", "email", "phone", "date_of_birth",
      "street_address", "proc_cd", "mail_id", "address", "city", "state",
      "zip_code", "country", "PRICNG_ZIP_STATE", "CLM_TYPE", "SRVC_FROM_DT",
      "HCID", "PAT_BRTH_DT", "PAT_FRST_NME", "PAT_LAST_NME", "ClaimDetails">>

\* the values that the loop over data.items() can assign to output[field]
WgsValues(field, values) ==
    IF IsList(values) /\ Len(values.l) > 0
    THEN IF field = "ClaimDetails"
         THEN IF IsDict(values.l[1])
              THEN LET claim_detail == values.l[1].d
                   IN { List(<<Dict(processed_claim)>>) :
                          processed_claim \in EntryProducts(
                            [j \in 1..Len(claim_detail) |->
                               Entry(claim_detail[j].k,
                                     IF IsList(claim_detail[j].v) /\ Len(claim_detail[j].v.l) > 0
                                     THEN Choice(claim_detail[j].v.l)
                                     ELSE {claim_detail[j].v})], 1) }
              ELSE {values}
         ELSE { List(<<x>>) : x \in Choice(values.l) }
    ELSE {values}

RECURSIVE EnsureFrom(_, _, _)
\* "Ensure all template fields have values", from template field i on: the outputs,
\* or TypeError where len() is applied to a true value that has no length
EnsureFrom(output, wgs_data, i) ==
    IF i > Len(template_fields) THEN {[exc |-> "none", out |-> output]}
    ELSE LET field == template_fields[i]
             current == Get(output, field)
         IN IF Falsy(current)
            THEN UNION { EnsureFrom(filled, wgs_data, i + 1) :
                           filled \in
                             { Put(output, field, x) :
                                 x \in IF HasKey(wgs_data.d, field)
                                          /\ IsList(Get(wgs_data.d, field))
                                          /\ Len(Get(wgs_data.d, field).l) > 0
                                       THEN { List(<<y>>) : y \in Choice(Get(wgs_data.d, field).l) }
                                       ELSE { List(<<Str(Chars("Default Value"))>>) } } }
            ELSE IF ~HasLen(current) THEN {[exc |-> "TypeError", out |-> output]}
            ELSE EnsureFrom(output, wgs_data, i + 1)

\* ConsolidatedGenerator.generate_wgs_format(data, probability_type): {key_name: output}
generate_wgs_format(wgs_data, probability_type_) ==
    LET key_name == Chars("WGS_csbd_medicaid") \o <<"_">> \o ToLower(Chars(probability_type_))
        empty == [i \in 1..Len(template_fields) |-> Entry(template_fields[i], List(<<>>))]
        drawn == EntryProducts([j \in 1..Len(wgs_data.d) |->
                                  Entry(wgs_data.d[j].k,
                                        WgsValues(wgs_data.d[j].k, wgs_data.d[j].v))], 1)
        ensured == UNION { EnsureFrom(output, wgs_data, 1) :
                             output \in { PutAll(empty, d, 1) : d \in drawn } }
    IN { IF e.exc = "none"
         THEN Generated("generate_wgs_format", Item(key_name, Dict(e.out)))
         ELSE GenRaised("generate_wgs_format", e.exc) : e \in ensured }

\* DataValidator.check_json_format on the file that holds payload: the first of the
\* (bool, message) pair
check_json_format(payload) ==
    /\ ~Falsy(payload)
    /\ IsDict(payload)
    /\ StartsWith(Get(payload.d, "key").s, Chars("WGS_csbd_medicaid"))
    /\ LET wgs_data == Get(payload.d, "value")
       IN \A i \in 1..Len(template_fields) : HasKey(wgs_data.d, template_fields[i])

RECURSIVE ScenarioSectionsReached(_, _, _, _)
\* ConsolidatedGenerator.generate_scenarios(scenario_type) without a model: the data
\* that the loop over the names goes on with, from name i on
ScenarioSectionsReached(config, names, scenario_type, i) ==
    IF i > Len(names) THEN <<>>
    ELSE LET data_ == _get_probability_data(config, names[i].s, scenario_type)
         IN (IF Falsy(data_) THEN <<>> ELSE <<data_>>)
            \o ScenarioSectionsReached(config, names, scenario_type, i + 1)

----------------------------------------------------------------------------
(* Inputs of the coercion *)

Alphabet == {"a", "b", " ", ","}

RECURSIVE StringsUpTo(_)
StringsUpTo(n) ==
    IF n = 0 THEN {<<>>}
    ELSE LET shorter == StringsUpTo(n - 1)
         IN shorter \cup {Append(s, c) : s \in {x \in shorter : Len(x) = n - 1}, c \in Alphabet}

\* the str elements a list value may hold
ElemStrings ==
    { <<>>, <<"a">>, <<"b">>, <<" ">>, <<" ", "a">>, <<"a", " ">>,
      <<"a", ",", "b">>, <<"a", " ", "b">>, <<",">> }

NestedClaim == Dict(<< Entry("proc_cd", List(<<Str(<<"1">>), Str(<<"2">>)>>)),
                       Entry("BILL_TYPE", Str(<<"P">>)) >>)

ScalarElems == {Str(s) : s \in ElemStrings} \cup {Num(0), Num(12), Null, Bool(TRUE)}

ListElems == ScalarElems \cup {NestedClaim, List(<<Num(1), Num(2)>>)}

RECURSIVE SeqsUpTo(_, _)
SeqsUpTo(S, n) ==
    IF n = 0 THEN {<<>>}
    ELSE LET shorter == SeqsUpTo(S, n - 1)
         IN shorter \cup {Append(s, e) : s \in {x \in shorter : Len(x) = n - 1}, e \in S}

CoerceInputs ==
    {Str(s) : s \in StringsUpTo(MaxStrLen)}
    \cup {List(l) : l \in SeqsUpTo(ListElems, MaxListLen)}
    \cup {Num(7), Null, Bool(FALSE), NestedClaim}

----------------------------------------------------------------------------
(* The coercion applied to one value, and applied again to its comma join *)

InitCoerce ==
    /\ pc = "start"
    /\ variant \in {"core", "legacy"}
    /\ value \in CoerceInputs
    /\ choices = <<>>
    /\ again = <<>>
    /\ data = Null
    /\ loaded = NotLoaded
    /\ master_data = Null
    /\ brd_data = Null
    /\ merge_out = NotMerged
    /\ section_options = Null
    /\ merged_config = Null
    /\ selected_models = Null
    /\ count = 0
    /\ args_model = Null
    /\ probability_type = ""
    /\ records = NotGenerated

Coerce ==
    /\ pc = "start"
    /\ choices' = _to_choice_list(value)
    /\ pc' = "coerced"
    /\ UNCHANGED <<args_model, probability_type, variant, value, again, data, loaded, master_data, brd_data,
                   merge_out, section_options,
                   merged_config, selected_models, count, records>>

Rejoin ==
    /\ pc = "coerced"
    /\ again' = _to_choice_list(Str(JoinPool(choices)))
    /\ pc' = "rejoined"
    /\ UNCHANGED <<args_model, probability_type, variant, value, choices, data, loaded, master_data, brd_data,
                   merge_out, section_options,
                   merged_config, selected_models, count, records>>

NextCoerce == Coerce \/ Rejoin

SpecCoerce == InitCoerce /\ [][NextCoerce]_vars

----------------------------------------------------------------------------
(* Documents handed to load_user_config *)

\* a field that the section does not have
Absent == Plain("absent")

PoolA == List(<<Str(<<"a">>)>>)
PoolAB == List(<<Str(<<"a">>), Str(<<"b">>)>>)
PoolUntrimmed == List(<<Str(<<" ", "a">>), Str(<<>>)>>)
PoolEmpty == List(<<>>)
PoolBlank == List(<<Str(<<" ">>)>>)
PoolNums == List(<<Num(1), Num(2)>>)
PoolNested == List(<<NestedClaim>>)
StrEmpty == Str(<<>>)
StrBlank == Str(<<" ", ",", " ">>)
StrCsv == Str(<<"a", ",", " ", "b">>)

FieldChoices ==
    { Absent, PoolA, PoolAB, PoolUntrimmed, PoolEmpty, PoolBlank, PoolNums, PoolNested,
      StrEmpty, StrBlank, StrCsv, Num(5), Null }

\* the entries of a section: the first, the second and the last required field take
\* the given values, the other required fields one value each, then a field "extra"
SectionEntries(required, first, second, last, extra) ==
    LET valueAt(i) == IF i = 1 THEN first
                      ELSE IF i = 2 THEN second
                      ELSE IF i = Len(required) THEN last
                      ELSE PoolA
        present == SelectSeq([i \in 1..Len(required) |-> Entry(required[i], valueAt(i))],
                             LAMBDA e : e.v # Absent)
    IN IF extra = Absent THEN present ELSE Append(present, Entry("extra", extra))

RichSections(v) ==
    { Dict(SectionEntries(RequiredOf(v), c1, c2, c3, e)) :
        c1 \in FieldChoices,
        c2 \in {Absent, PoolAB, PoolEmpty, StrCsv},
        c3 \in {Absent, PoolNested, PoolA, StrBlank},
        e \in {Absent, PoolEmpty} }

\* top-level values that are not mappings
NonDictValues(v) ==
    { Str(<<"a", "b">>), Str(Chars(RequiredOf(v)[1])), Null, Num(5), List(<<>>),
      List(<<Str(Chars(RequiredOf(v)[1]))>>) }

SmallSections(v) ==
    { Dict(SectionEntries(RequiredOf(v), PoolAB, PoolA, PoolNested, Absent)),
      Dict(SectionEntries(RequiredOf(v), Absent, PoolA, PoolA, Absent)),
      Dict(SectionEntries(RequiredOf(v), PoolA, PoolEmpty, Absent, Absent)),
      Dict(<<>>),
      Str(<<"a", "b">>),
      Null }

SectionKeys == {"Model_1", "Edit_1", "Edit_2", "sec", "other", "user_profile"}

RECURSIVE EntrySeqs(_, _, _)
\* the sequences of n entries with distinct keys from K and values from V
EntrySeqs(K, V, n) ==
    IF n = 0 THEN {<<>>}
    ELSE { Append(d, Entry(k, x)) :
             d \in EntrySeqs(K, V, n - 1), k \in K, x \in V }

DistinctKeys(d) == \A i, j \in 1..Len(d) : d[i].k = d[j].k => i = j

Documents(v) ==
    { Dict(<<Entry(k, x)>>) :
        k \in {"Model_1", "Edit_1", "sec", "user_profile"},
        x \in RichSections(v) \cup NonDictValues(v) }
    \cup UNION { { Dict(d) : d \in {e \in EntrySeqs(SectionKeys, SmallSections(v), n) :
                                       DistinctKeys(e)} } : n \in 2..MaxSections }
    \cup RichSections(v)
    \cup { Dict(<<>>), List(<<>>), Null, Str(<<"a">>) }

----------------------------------------------------------------------------
(* One run of the loader *)

InitLoad ==
    /\ pc = "start"
    /\ variant \in {"core", "legacy"}
    /\ data \in Documents(variant)
    /\ value = Null
    /\ choices = <<>>
    /\ again = <<>>
    /\ loaded = NotLoaded
    /\ master_data = Null
    /\ brd_data = Null
    /\ merge_out = NotMerged
    /\ section_options = Null
    /\ merged_config = Null
    /\ selected_models = Null
    /\ count = 0
    /\ args_model = Null
    /\ probability_type = ""
    /\ records = NotGenerated

LoadUserConfig ==
    /\ pc = "start"
    /\ loaded' = load_user_config(data, variant)
    /\ pc' = IF loaded'.exc = "none" THEN "loaded" ELSE "failed"
    /\ UNCHANGED <<args_model, probability_type, variant, value, choices, again, data, master_data, brd_data,
                   merge_out, section_options,
                   merged_config, selected_models, count, records>>

NextLoad == LoadUserConfig

SpecLoad == InitLoad /\ [][NextLoad]_vars

----------------------------------------------------------------------------
(* Mappings handed to merge_brd_with_master *)

ValueX == Str(<<"X">>)
ValueY == Str(<<"Y">>)
ClaimsOne == List(<<Dict(<<Entry("proc_cd", PoolAB), Entry("BILL_TYPE", PoolA)>>)>>)
ClaimsTwo == List(<<Dict(<<Entry("proc_cd", PoolA)>>)>>)

MergeSections ==
    { Dict(<<>>),
      Dict(<<Entry("HCID", ValueX)>>),
      Dict(<<Entry("HCID", ValueY), Entry("ClaimDetails", ClaimsOne)>>),
      Dict(<<Entry("ClaimDetails", ClaimsTwo)>>),
      Dict(<<Entry("CLM_TYPE", PoolAB), Entry("ClaimDetails", ClaimsTwo)>>) }

MasterDocuments ==
    { Dict(d) : d \in { e \in UNION { EntrySeqs({"user_profile", "Model_1"},
                                                 MergeSections \cup {ValueX}, n) :
                                        n \in 0..2 } : DistinctKeys(e) } }

UserDocuments ==
    { Dict(d) : d \in { e \in UNION { EntrySeqs({"Model_1", "Model_2", "user_profile"},
                                                 MergeSections, n) :
                                        n \in 0..MaxUserSections } : DistinctKeys(e) } }

----------------------------------------------------------------------------
(* One merge of a user mapping with a master template *)

InitMerge ==
    /\ pc = "start"
    /\ variant = "core"
    /\ master_data \in MasterDocuments
    /\ brd_data \in UserDocuments
    /\ merge_out = NotMerged
    /\ value = Null
    /\ choices = <<>>
    /\ again = <<>>
    /\ data = Null
    /\ loaded = NotLoaded
    /\ section_options = Null
    /\ merged_config = Null
    /\ selected_models = Null
    /\ count = 0
    /\ args_model = Null
    /\ probability_type = ""
    /\ records = NotGenerated

MergeBrdWithMaster ==
    /\ pc = "start"
    /\ LET out == merge_brd_with_master(master_data, brd_data)
       IN /\ merge_out' = out
          /\ master_data' = out.master
          /\ pc' = IF out.exc = "none" THEN "merged" ELSE "failed"
    /\ UNCHANGED <<args_model, probability_type, variant, value, choices, again, data, loaded, brd_data,
                   section_options,
                   merged_config, selected_models, count, records>>

NextMerge == MergeBrdWithMaster

SpecMerge == InitMerge /\ [][NextMerge]_vars

----------------------------------------------------------------------------
(* Sections and configurations handed to the record generators *)

\* a pool of n values of one field: HCID1, HCID2, ...
FieldPool(field, n) == List([i \in 1..n |-> Str(Chars(field) \o <<DigitChar(i)>>)])

OnePool(field) == Entry(field, FieldPool(field, 1))

\* a claim detail with a pool of n procedure codes, a scalar and one more nested value x
ClaimDetail(n, x) ==
    Dict(<<Entry("proc_cd", FieldPool("proc_cd", n)),
           Entry("BILL_TYPE", Str(<<"P">>)),
           Entry("extra", x)>>)

ClaimDetailsInputs ==
    { FieldPool("ClaimDetails", n) : n \in 1..2 }
    \cup { List(<<ClaimDetail(n, x)>>) : n \in 1..MaxPool, x \in {PoolEmpty, Num(7)} }
    \cup { List(<<ClaimDetail(2, PoolAB), ClaimDetail(1, ValueX)>>),
           List(<<ClaimDetail(1, PoolA), ValueX>>) }

\* fields of a section that are not required
ExtraEntries ==
    { <<>>,
      <<Entry("extra", FieldPool("extra", MaxPool + 1))>>,
      <<Entry("extra", PoolEmpty)>>,
      <<Entry("extra", ValueX)>>,
      <<Entry("extra", List(<<ClaimDetail(2, PoolEmpty)>>))>> }

\* sections of core.py holding every required field
FullSections ==
    { Dict(<<Entry("PRICNG_ZIP_STATE", FieldPool("PRICNG_ZIP_STATE", a)),
             Entry("CLM_TYPE", FieldPool("CLM_TYPE", b)),
             OnePool("SRVC_FROM_DT"),
             Entry("HCID", h),
             OnePool("PAT_BRTH_DT"),
             OnePool("PAT_FRST_NME"),
             OnePool("PAT_LAST_NME"),
             Entry("ClaimDetails", cd)>> \o extra) :
        a \in 1..MaxPool, b \in 1..MaxPool,
        h \in {FieldPool("HCID", 1), FieldPool("HCID", 2), PoolEmpty},
        cd \in ClaimDetailsInputs, extra \in ExtraEntries }

\* the Model_1 section of the documented scenario: two values of PRICNG_ZIP_STATE,
\* of HCID and of the nested proc_cd, one value of every other field
ExampleModel1 ==
    Dict(<<Entry("PRICNG_ZIP_STATE", List(<<Str(<<"T","N">>), Str(<<"K","L">>)>>)),
           Entry("CLM_TYPE", List(<<Str(<<"P">>)>>)),
           Entry("SRVC_FROM_DT", List(<<Str(<<"0","4","/","2","0","/","2","0","2","5">>)>>)),
           Entry("HCID", List(<<Str(<<"H","1">>), Str(<<"H","2">>)>>)),
           Entry("PAT_BRTH_DT", List(<<Str(<<"0","1","/","0","1","/","1","9","9","0">>)>>)),
           Entry("PAT_FRST_NME", List(<<Str(<<"M","o","h","a","n">>)>>)),
           Entry("PAT_LAST_NME", List(<<Str(<<"K","u","m","a","r">>)>>)),
           Entry("ClaimDetails",
                 List(<<Dict(<<Entry("SRVC_FROM_DT",
                                     List(<<Str(<<"1","2","/","1","2","/","2","0","2","4">>)>>)),
                               Entry("proc_cd",
                                     List(<<Str(<<"1","1","1">>), Str(<<"2","2","2">>)>>)),
                               Entry("BILL_TYPE", List(<<Str(<<"P">>)>>))>>)>>))>>)

\* sections lacking a required field, or holding a value that is no pool
PartialSections ==
    { Dict(<<>>),
      Dict(<<OnePool("PRICNG_ZIP_STATE"), OnePool("CLM_TYPE")>>),
      Dict(<<Entry("PRICNG_ZIP_STATE", Num(5))>>),
      Dict(<<OnePool("name"), OnePool("mail_id"), OnePool("address")>>),
      Dict([n \in 1..Len(REQUIRED_FIELDS_core) |-> Entry(REQUIRED_FIELDS_core[n], PoolEmpty)]),
      Dict([n \in 1..Len(REQUIRED_FIELDS_legacy) |->
              Entry(REQUIRED_FIELDS_legacy[n], PoolEmpty)]),
      ValueX }

\* sections of generate_mock_output.py: the loader keeps the four fields only
LegacySections ==
    { Dict(<<Entry("name", FieldPool("name", a)),
             Entry("mail_id", FieldPool("mail_id", b)),
             Entry("address", FieldPool("address", c)),
             Entry("city", d)>>) :
        a \in 1..MaxPool, b \in 1..MaxPool, c \in 1..2,
        d \in {FieldPool("city", 1), FieldPool("city", 2), PoolEmpty, ValueX} }

IndexedSections(v) ==
    (IF v = "core" THEN FullSections \cup {ExampleModel1} ELSE LegacySections)
        \cup PartialSections

\* values of one field in a merged or loaded section
HcidInputs ==
    { FieldPool("HCID", n) : n \in 1..MaxPool }
    \cup { PoolEmpty, ValueX, Str(<<>>), Num(5), Bool(TRUE), Null,
           List(<<ClaimDetail(2, PoolEmpty)>>) }

\* sections handed to the random generators of core.py
RandomSections ==
    { Dict(<<Entry("HCID", h)>> \o c \o cd) :
        h \in HcidInputs,
        c \in {<<>>, <<Entry("CLM_TYPE", FieldPool("CLM_TYPE", 2))>>},
        cd \in {<<>>} \cup {<<Entry("ClaimDetails", x)>> : x \in ClaimDetailsInputs} }
    \cup {ValueX}

\* sections handed to generate_model_records
RecordSections ==
    { Dict(<<Entry("HCID", h)>> \o cd) :
        h \in HcidInputs,
        cd \in {<<>>, <<Entry("ClaimDetails", List(<<ClaimDetail(2, PoolEmpty)>>))>>} }
    \cup {ValueX}

\* sections of a merged configuration
ConfigSections ==
    { Dict(<<>>),
      Dict(<<Entry("HCID", FieldPool("HCID", 2))>>),
      Dict(<<Entry("HCID", ValueX), Entry("CLM_TYPE", Num(5))>>),
      Dict(<<Entry("HCID", PoolEmpty),
             Entry("ClaimDetails", List(<<ClaimDetail(2, ValueY)>>))>>),
      ValueX }

MergedConfigs ==
    { Dict(d) : d \in { e \in UNION { EntrySeqs({"user_profile", "user_profile_2", "Model_1",
                                                  "Model_2"},
                                                 ConfigSections, n) :
                                        n \in 0..MaxSections } : DistinctKeys(e) } }

ModelNames == {"Model_1", "Model_2", "user_profile", "other"}

\* the selected_models argument: None, or a list of names
Selections ==
    {Null} \cup { List([i \in 1..Len(names) |-> Str(Chars(names[i]))]) :
                    names \in SeqsUpTo(ModelNames, 2) }

\* a pool of n values that belong to one section: A1, A2, ...
OwnPool(letter, first, n) == List([i \in 1..n |-> Str(<<letter, DigitChar(first + i - 1)>>)])

\* sections as the loader returns them, no value shared between two of them
PayloadSections(v) ==
    IF v = "core"
    THEN { Dict(<<Entry("HCID", OwnPool("A", 1, 2)),
                  Entry("ClaimDetails",
                        List(<<Dict(<<Entry("proc_cd", OwnPool("a", 1, 2))>>)>>))>>),
           Dict(<<Entry("HCID", OwnPool("B", 1, 1)), Entry("CLM_TYPE", OwnPool("B", 2, 2))>>),
           Dict(<<Entry("HCID", PoolEmpty)>>),
           Dict(<<>>),
           Dict(<<Entry("HCID", OwnPool("C", 1, 1)),
                  Entry("ClaimDetails", List(<<Dict(<<Entry("proc_cd", Num(5))>>)>>))>>) }
    ELSE { Dict(<<Entry("name", OwnPool("A", 1, 2)), Entry("mail_id", OwnPool("A", 3, 1)),
                  Entry("address", OwnPool("A", 4, 1)), Entry("city", OwnPool("A", 5, 1))>>),
           Dict(<<Entry("name", OwnPool("B", 1, 1)), Entry("mail_id", OwnPool("B", 2, 2)),
                  Entry("address", OwnPool("B", 4, 1)), Entry("city", OwnPool("B", 5, 1))>>) }

\* the mappings of sections handed to build_output_payload
EditsInputs(v) ==
    { Dict(d) : d \in { e \in UNION { EntrySeqs({"Edit_1", "Edit_2", "Model_1"},
                                                 PayloadSections(v), n) :
                                        n \in 0..MaxSections } : DistinctKeys(e) } }

\* the section of a scenario configuration under one key: its one value says which
\* key it is under
SectionUnder(key) == Dict(<<Entry("HCID", List(<<Str(Chars(key))>>))>>)

ScenarioKeys ==
    {"Model_1", "Model_1_positive", "Model_1_negative", "Model_2_positive",
     "Model_1_Positive", "MyModel_negative", "x_positive_y"}

\* the configurations of the ConsolidatedGenerator, each section told apart by its key
KeyedConfigs ==
    { Dict([j \in 1..Len(keys) |-> Entry(keys[j], SectionUnder(keys[j]))]) :
        keys \in { q \in SeqsUpTo(ScenarioKeys, MaxSections + 1) :
                     \A i, j \in 1..Len(q) : q[i] = q[j] => i = j } }

\* the lists that hold the elements of a set once each, in any order
ListsOf(S) ==
    { q \in SeqsUpTo(S, Cardinality(S)) :
        Len(q) = Cardinality(S) /\ \A i, j \in 1..Len(q) : q[i] = q[j] => i = j }

\* the names given with --model
NamedModels == { Str(Chars(name)) : name \in {"Edit_1", "Model_1", "Model_2", "other"} }

\* the configuration file of the ConsolidatedGenerator: sections keyed by model and
\* scenario
ScenarioConfigs ==
    { Dict(d) : d \in { e \in UNION { EntrySeqs({"Model_1_positive", "Model_1_negative",
                                                  "Model_2_positive"},
                                                 { Dict(<<Entry("HCID", FieldPool("HCID", 2))>>),
                                                   Dict(<<>>) }, n) :
                                        n \in 0..MaxSections } : DistinctKeys(e) } }

----------------------------------------------------------------------------
(* One call of a record generator *)

InitGen ==
    /\ pc = "start"
    /\ variant \in {"core", "legacy"}
    /\ value = Null
    /\ choices = <<>>
    /\ again = <<>>
    /\ data = Null
    /\ loaded = NotLoaded
    /\ master_data = Null
    /\ brd_data = Null
    /\ merge_out = NotMerged
    /\ section_options = Null
    /\ merged_config = Null
    /\ selected_models = Null
    /\ count = 0
    /\ args_model = Null
    /\ probability_type = ""
    /\ records = NotGenerated

BuildIndexedRecords ==
    /\ pc = "start"
    /\ \E section \in IndexedSections(variant) :
        /\ section_options' = section
        /\ records' = build_indexed_records(section, variant)
    /\ pc' = "indexed"
    /\ UNCHANGED <<args_model, probability_type, variant, value, choices, again, data, loaded, master_data, brd_data,
                   merge_out, merged_config, selected_models, count>>

SelectRandomRecordFromEdit ==
    /\ pc = "start"
    /\ \E section \in (IF variant = "core" THEN RandomSections
                       ELSE LegacySections \cup PartialSections) :
        /\ section_options' = section
        /\ records' \in _select_random_record_from_edit(section, variant)
    /\ pc' = "random"
    /\ UNCHANGED <<args_model, probability_type, variant, value, choices, again, data, loaded, master_data, brd_data,
                   merge_out, merged_config, selected_models, count>>

GenerateModelRecords ==
    /\ pc = "start"
    /\ variant = "core"
    /\ \E section \in RecordSections, n \in 0..MaxCount :
        /\ section_options' = section
        /\ count' = n
        /\ records' \in generate_model_records(section, n)
    /\ pc' = "random"
    /\ UNCHANGED <<args_model, probability_type, variant, value, choices, again, data, loaded, master_data, brd_data,
                   merge_out, merged_config, selected_models>>

GenerateModelOutputs ==
    /\ pc = "start"
    /\ variant = "core"
    /\ \E config \in MergedConfigs, selected \in Selections :
        /\ merged_config' = config
        /\ selected_models' = selected
        /\ records' \in generate_model_outputs(config, selected)
    /\ pc' = "random"
    /\ UNCHANGED <<args_model, probability_type, variant, value, choices, again, data, loaded, master_data, brd_data,
                   merge_out, section_options, count>>

\* the pools of a section that can receive one more value: a field whose value is a
\* list (c = 0), or the list of nested field q of element c of a nested ClaimDetails
GrowTargets(section) ==
    { [j |-> j, c |-> 0, q |-> 0] : j \in {i \in 1..Len(section.d) : IsList(section.d[i].v)} }
    \cup UNION { UNION { { [j |-> j, c |-> c, q |-> q] :
                            q \in {n \in 1..Len(section.d[j].v.l[c].d) :
                                      IsList(section.d[j].v.l[c].d[n].v)} } :
                          c \in 1..Len(section.d[j].v.l) } :
                  j \in {i \in 1..Len(section.d) :
                           /\ IsNestedField(section.d[i].k, section.d[i].v)
                           /\ ~NestedRaises(section)} }

\* the pool with one more value: a new string, or one more mapping like the first
OneMore(pool) ==
    IF Len(pool.l) > 0 /\ IsDict(pool.l[1]) THEN List(Append(pool.l, pool.l[1]))
    ELSE List(Append(pool.l, Str(<<"+">>)))

\* the section with one more value in the pool that target names
Grow(section, target) ==
    LET values == section.d[target.j].v
        grown ==
            IF target.c = 0 THEN OneMore(values)
            ELSE LET claim_detail == values.l[target.c]
                     nested == Dict([claim_detail.d EXCEPT ![target.q] =
                                       Entry(claim_detail.d[target.q].k,
                                             OneMore(claim_detail.d[target.q].v))])
                 IN List([values.l EXCEPT ![target.c] = nested])
    IN Dict([section.d EXCEPT ![target.j] = Entry(section.d[target.j].k, grown)])

\* The user adds one value to one pool of the section and the records are built again.
GrowPool ==
    /\ pc = "indexed"
    /\ records.exc = "none"
    /\ \E target \in GrowTargets(section_options) :
        /\ section_options' = Grow(section_options, target)
        /\ records' = build_indexed_records(section_options', variant)
    /\ pc' = "regrown"
    /\ UNCHANGED <<args_model, probability_type, variant, value, choices, again, data, loaded,
                   master_data, brd_data, merge_out, merged_config, selected_models, count>>

\* The user changes the content of ClaimDetails only, keeping the length of its
\* list, and the records are built again.
ChangeClaimDetails ==
    /\ pc = "indexed"
    /\ records.exc = "none"
    /\ HasKey(section_options.d, "ClaimDetails")
    /\ \E j \in 1..Len(section_options.d), other \in ClaimDetailsInputs :
        /\ section_options.d[j].k = "ClaimDetails"
        /\ other # section_options.d[j].v
        /\ Len(other.l) = Len(section_options.d[j].v.l)
        /\ section_options' =
              Dict([section_options.d EXCEPT ![j] = Entry("ClaimDetails", other)])
        /\ records' = build_indexed_records(section_options', variant)
    /\ pc' = "renested"
    /\ UNCHANGED <<args_model, probability_type, variant, value, choices, again, data, loaded,
                   master_data, brd_data, merge_out, merged_config, selected_models, count>>

BuildOutputPayload ==
    /\ pc = "start"
    /\ \E edits \in EditsInputs(variant), n \in 0..MaxCount :
        /\ merged_config' = edits
        /\ count' = n
        /\ records' \in build_output_payload(edits, n, variant)
    /\ pc' = "batch"
    /\ UNCHANGED <<args_model, probability_type, variant, value, choices, again, data, loaded,
                   master_data, brd_data, merge_out, section_options, selected_models>>

\* cli.main or generate_mock_output.main run with --model
RunNamedModel ==
    /\ pc = "start"
    /\ \E user_data \in EditsInputs(variant), model \in NamedModels, n \in 1..MaxCount :
        /\ merged_config' = user_data
        /\ args_model' = model
        /\ count' = n
        /\ records' \in IF variant = "core" THEN cli_main(user_data, model, n)
                        ELSE legacy_main(user_data, model)
    /\ pc' = "named"
    /\ UNCHANGED <<probability_type, variant, value, choices, again, data, loaded, master_data,
                   brd_data, merge_out, section_options, selected_models>>

\* ConsolidatedGenerator.generate_scenarios called with a model
GenerateScenarios ==
    /\ pc = "start"
    /\ variant = "core"
    /\ \E config \in ScenarioConfigs, scenario_type \in ScenarioTypes,
          model \in NamedModels \cup {Str(<<"m", "o", "d", "e", "l", "_", "1">>)},
          n \in 1..MaxCount :
        /\ merged_config' = config
        /\ probability_type' = scenario_type
        /\ args_model' = model
        /\ count' = n
        /\ records' \in generate_scenarios(config, scenario_type, model, n)
    /\ pc' = "named"
    /\ UNCHANGED <<variant, value, choices, again, data, loaded, master_data, brd_data,
                   merge_out, section_options, selected_models>>

\* ConsolidatedGenerator._get_model_names: list(base_models), a set in any order
GetModelNames ==
    /\ pc = "start"
    /\ variant = "core"
    /\ \E config \in KeyedConfigs :
        /\ merged_config' = config
        /\ \E names \in ListsOf(_get_model_names(config)) :
             records' = Generated("_get_model_names",
                                  List([j \in 1..Len(names) |-> Str(names[j])]))
    /\ pc' = "names"
    /\ UNCHANGED <<args_model, probability_type, variant, value, choices, again, data, loaded,
                   master_data, brd_data, merge_out, section_options, selected_models, count>>

GenerateStandardFormat ==
    /\ pc = "start"
    /\ variant = "core"
    /\ \E section \in RandomSections, scenario \in ScenarioTypes :
        /\ section_options' = section
        /\ probability_type' = scenario
        /\ records' \in generate_standard_format(section, scenario)
    /\ pc' = "random"
    /\ UNCHANGED <<args_model, variant, value, choices, again, data, loaded, master_data, brd_data,
                   merge_out, merged_config, selected_models, count>>

\* the values of a field of a raw section: lists, empty lists, strings, other scalars
WgsFieldValues ==
    { OwnPool("A", 1, 2), List(<<>>), Str(<<"a", "b">>), Str(<<>>), Num(5), Num(0),
      Bool(TRUE), Null }

WgsClaimDetails ==
    { List(<<Dict(<<Entry("proc_cd", OwnPool("a", 1, 2)), Entry("units", List(<<>>))>>)>>),
      List(<<Dict(<<>>)>>), List(<<Str(<<"x">>)>>), List(<<>>), Num(5) }

\* the section data handed to generate_wgs_format
WgsSections ==
    { Dict(<<>>) }
    \cup { Dict(<<Entry(k, x)>>) : k \in {"HCID", "other"}, x \in WgsFieldValues }
    \cup { Dict(<<Entry("ClaimDetails", c)>>) : c \in WgsClaimDetails }
    \cup { Dict(<<Entry("HCID", x), Entry("ClaimDetails", c)>>) :
             x \in WgsFieldValues, c \in WgsClaimDetails }

WgsTypes == ScenarioTypes \cup {"Positive"}

GenerateWgsFormat ==
    /\ pc = "start"
    /\ variant = "core"
    /\ \E section \in WgsSections, scenario \in WgsTypes :
        /\ section_options' = section
        /\ probability_type' = scenario
        /\ records' \in generate_wgs_format(section, scenario)
    /\ pc' = "wgs"
    /\ UNCHANGED <<args_model, variant, value, choices, again, data, loaded, master_data, brd_data,
                   merge_out, merged_config, selected_models, count>>

NextGen ==
    \/ BuildIndexedRecords
    \/ SelectRandomRecordFromEdit
    \/ GenerateModelRecords
    \/ GenerateModelOutputs
    \/ GenerateStandardFormat
    \/ BuildOutputPayload
    \/ RunNamedModel
    \/ GetModelNames
    \/ GenerateScenarios
    \/ GenerateWgsFormat
    \/ GrowPool
    \/ ChangeClaimDetails

SpecGen == InitGen /\ [][NextGen]_vars

----------------------------------------------------------------------------
(* A sequence of generator calls on one configuration *)

\* A mutant of AfterDraw: the element drawn is taken out of the pool.
AfterDrawRemoved(values, x) ==
    IF IsList(values) /\ \E n \in 1..Len(values.l) : values.l[n] = x
    THEN LET n == CHOOSE n \in 1..Len(values.l) :
                    values.l[n] = x /\ \A m \in 1..(n - 1) : values.l[m] # x
         IN List(SubSeq(values.l, 1, n - 1) \o SubSeq(values.l, n + 1, Len(values.l)))
    ELSE values

\* the pool after random.choice(values) has returned x: choice reads values, and no
\* statement of the generators assigns to it
AfterDraw(values, x) == values

\* the section after the pass that built record
SectionAfter(section, record) ==
    Dict([j \in 1..Len(section.d) |->
            Entry(section.d[j].k,
                  IF HasKey(record.d, section.d[j].k)
                  THEN AfterDraw(section.d[j].v, Get(record.d, section.d[j].k))
                  ELSE section.d[j].v)])

\* the configuration after the pass over section j
ConfigAfter(config, j, record) ==
    Dict([i \in 1..Len(config.d) |->
            IF i = j THEN Entry(config.d[i].k, SectionAfter(config.d[i].v, record))
            ELSE config.d[i]])

\* the configuration after generate_model_outputs has built outputs
ConfigAfterOutputs(config, outputs) ==
    Dict([i \in 1..Len(config.d) |->
            IF HasKey(outputs.d, config.d[i].k)
            THEN Entry(config.d[i].k,
                       SectionAfter(config.d[i].v, Get(outputs.d, config.d[i].k)))
            ELSE config.d[i]])

\* the sections of the configurations that the calls are made on
CallSections ==
    { ExampleModel1,
      Dict(<<Entry("HCID", OwnPool("A", 1, 2)),
             Entry("ClaimDetails", List(<<Dict(<<Entry("proc_cd", OwnPool("a", 1, 2))>>)>>))>>),
      Dict(<<Entry("HCID", OwnPool("B", 1, 1)), Entry("CLM_TYPE", OwnPool("B", 2, 2))>>) }

CallConfigs ==
    { Dict(d) : d \in { e \in UNION { EntrySeqs({"Model_1", "Model_2"}, CallSections, n) :
                                        n \in 1..MaxSections } : DistinctKeys(e) } }

\* data keeps the configuration as it was before the first call
InitCalls ==
    /\ pc = "calls"
    /\ variant = "core"
    /\ merged_config \in CallConfigs
    /\ data = merged_config
    /\ value = Null
    /\ choices = <<>>
    /\ again = <<>>
    /\ loaded = NotLoaded
    /\ master_data = Null
    /\ brd_data = Null
    /\ merge_out = NotMerged
    /\ section_options = Null
    /\ selected_models = Null
    /\ count = 0
    /\ args_model = Null
    /\ probability_type = ""
    /\ records = NotGenerated

CallGenerateModelOutputs ==
    /\ count < MaxCalls
    /\ \E r \in generate_model_outputs(merged_config, Null) :
        /\ records' = r
        /\ merged_config' = IF r.exc = "none" THEN ConfigAfterOutputs(merged_config, r.out)
                            ELSE merged_config
    /\ count' = count + 1
    /\ UNCHANGED <<pc, args_model, probability_type, variant, value, choices, again, data,
                   loaded, master_data, brd_data, merge_out, section_options, selected_models>>

CallGenerateModelRecords ==
    /\ count < MaxCalls
    /\ \E j \in 1..Len(merged_config.d) :
         \E r \in generate_model_records(merged_config.d[j].v, 1) :
            /\ records' = r
            /\ merged_config' = IF r.exc = "none"
                                THEN ConfigAfter(merged_config, j, r.out.l[1])
                                ELSE merged_config
    /\ count' = count + 1
    /\ UNCHANGED <<pc, args_model, probability_type, variant, value, choices, again, data,
                   loaded, master_data, brd_data, merge_out, section_options, selected_models>>

CallSelectRandomRecord ==
    /\ count < MaxCalls
    /\ \E j \in 1..Len(merged_config.d) :
         \E r \in _select_random_record_from_edit(merged_config.d[j].v, variant) :
            /\ records' = r
            /\ merged_config' = IF r.exc = "none" THEN ConfigAfter(merged_config, j, r.out)
                                ELSE merged_config
    /\ count' = count + 1
    /\ UNCHANGED <<pc, args_model, probability_type, variant, value, choices, again, data,
                   loaded, master_data, brd_data, merge_out, section_options, selected_models>>

\* build_indexed_records reads values[idx % len(values)] and assigns to record only
CallBuildIndexedRecords ==
    /\ count < MaxCalls
    /\ \E j \in 1..Len(merged_config.d) :
         records' = build_indexed_records(merged_config.d[j].v, variant)
    /\ count' = count + 1
    /\ UNCHANGED <<pc, args_model, probability_type, variant, value, choices, again, data,
                   loaded, master_data, brd_data, merge_out, section_options, merged_config,
                   selected_models>>

NextCalls ==
    \/ CallGenerateModelOutputs
    \/ CallGenerateModelRecords
    \/ CallSelectRandomRecord
    \/ CallBuildIndexedRecords

SpecCalls == InitCalls /\ [][NextCalls]_vars

----------------------------------------------------------------------------
(* Properties of the coercion *)

AllWhitespace(s) == \A k \in 1..Len(s) : s[k] \in Whitespace

\* t is s without its leading and trailing whitespace
IsTrimOf(t, s) ==
    \E i \in 0..Len(s) : \E j \in i..Len(s) :
        /\ t = SubSeq(s, i + 1, j)
        /\ \A k \in 1..i : s[k] \in Whitespace
        /\ \A k \in (j + 1)..Len(s) : s[k] \in Whitespace
        /\ Len(t) > 0 => (t[1] \notin Whitespace /\ t[Len(t)] \notin Whitespace)

\* parts are the comma-separated parts of s: comma-free, and s is their comma join
IsCommaSplitOf(parts, s) ==
    /\ Len(parts) >= 1
    /\ \A i \in 1..Len(parts) : \A k \in 1..Len(parts[i]) : parts[i][k] # ","
    /\ JoinStr(parts, <<",">>) = s

\* the untrimmed items of a value: one per list element, one per comma part, or one
ItemsOf(x) ==
    IF IsList(x) THEN [i \in 1..Len(x.l) |-> PyStr(x.l[i])]
    ELSE IF IsStr(x) THEN SplitComma(x.s)
    ELSE <<PyStr(x)>>

\* pool holds, in order, the trimmed items that are not empty after trimming
IsCoercionOf(pool, x) ==
    LET items == ItemsOf(x)
        keptAt == {i \in 1..Len(items) : ~AllWhitespace(items[i])}
        place(i) == Cardinality({j \in keptAt : j <= i})
    IN /\ IsStr(x) => IsCommaSplitOf(items, x.s)
       /\ Len(pool) = Cardinality(keptAt)
       /\ \A i \in keptAt : IsStr(pool[place(i)]) /\ IsTrimOf(pool[place(i)].s, items[i])
       /\ \A k \in 1..Len(pool) :
            /\ Len(pool[k].s) > 0
            /\ pool[k].s[1] \notin Whitespace
            /\ pool[k].s[Len(pool[k].s)] \notin Whitespace

PoolSet(pool) == {pool[i] : i \in 1..Len(pool)}

IsScalar(x) == x.t \in {"str", "num", "bool", "null"}

\* a string, or a list of scalars
IsStringOrScalarList(x) ==
    \/ IsStr(x)
    \/ IsList(x) /\ \A i \in 1..Len(x.l) : IsScalar(x.l[i])

\* no element of the list holds a comma
NoCommaElement(x) ==
    IsList(x) => \A i \in 1..Len(x.l) : \A k \in 1..Len(PyStr(x.l[i])) : PyStr(x.l[i])[k] # ","

\* C9: _to_choice_list(v) holds the str() of each list element, or the comma parts of
\* a string, or the single str() of another scalar, trimmed and in the original
\* order, with the empty strings removed: no element is empty or has leading or
\* trailing whitespace.
C9_CoercionResult == pc # "start" => IsCoercionOf(choices, value)

\* C9 witness: a value was coerced, lost an item that was empty after trimming and
\* kept a trimmed one.
C9_Witness ==
    /\ pc = "coerced"
    /\ Len(choices) >= 1
    /\ Len(choices) < Len(ItemsOf(value))
    /\ \E i \in 1..Len(ItemsOf(value)) :
          /\ ~AllWhitespace(ItemsOf(value)[i])
          /\ Strip(ItemsOf(value)[i]) # ItemsOf(value)[i]

\* C8 as stated: for every string or list of scalars, coercing the comma join of the
\* coerced pool gives the same set of values, also when a list element holds a comma.
C8_IdempotenceAsStated ==
    (pc = "rejoined" /\ IsStringOrScalarList(value)) => PoolSet(again) = PoolSet(choices)

\* C8 amended: for every string, and every list of scalars none of whose elements
\* holds a comma, coercing the comma join of the coerced pool gives the same set of
\* non-empty trimmed values.
C8_IdempotenceWithoutCommaElements ==
    (pc = "rejoined" /\ IsStringOrScalarList(value) /\ NoCommaElement(value))
        => PoolSet(again) = PoolSet(choices)

\* C8 witness: a list of two scalars, one needing trimming, was coerced, joined and
\* coerced again to the same two values.
C8_Witness ==
    /\ pc = "rejoined"
    /\ IsList(value)
    /\ IsStringOrScalarList(value)
    /\ NoCommaElement(value)
    /\ Len(choices) = 2
    /\ \E i \in 1..Len(value.l) : IsStr(value.l[i]) /\ Strip(value.l[i].s) # value.l[i].s
    /\ again = choices

----------------------------------------------------------------------------
(* Properties of the loader *)

\* the sections of the mapping the loader returned, as entries
ParsedSections == loaded.parsed.d

\* the part of the document a returned section was read from: the top-level value
\* under its name, or the whole document for the single implicit section
SourceOf(k) == IF HasKey(data.d, k) THEN Get(data.d, k) ELSE data

\* the value has no item left after trimming
CoercesToEmpty(x) == \A i \in 1..Len(ItemsOf(x)) : AllWhitespace(ItemsOf(x)[i])

\* the required field is absent from the section, or present with an empty pool
MissingOrEmpty(section, f) ==
    \/ ~IsDict(section)
    \/ ~HasKey(section.d, f)
    \/ CoercesToEmpty(Get(section.d, f))

ExpectedMissing(section) == SelectSeq(REQUIRED_FIELDS, LAMBDA f : MissingOrEmpty(section, f))

\* the prefix that selects the sections of the document
SectionPrefix ==
    IF variant = "core" /\ AnyKeyStartsWith(data.d, "Model_") THEN "Model_" ELSE "Edit_"

HasPrefixedKey == IsDict(data) /\ AnyKeyStartsWith(data.d, SectionPrefix)

\* no prefixed key, and some top-level value that is not a mapping
IsFlatShape ==
    /\ IsDict(data)
    /\ ~HasPrefixedKey
    /\ \E i \in 1..Len(data.d) : ~IsDict(data.d[i].v)

MissingFieldsFailure ==
    /\ pc = "failed"
    /\ loaded.exc = "SystemExit"
    /\ loaded.head \in {"Section is missing required non-empty fields",
                        "Configuration is missing required non-empty fields"}

\* C1: a section with a required field absent, or present but coercing to an empty
\* pool, makes load_user_config fail in every shape (Model_*, Edit_*, generic, flat);
\* the loader never returns a mapping that contains such a section.
C1_RequiredFieldCompleteness ==
    pc = "loaded" =>
        \A i \in 1..Len(ParsedSections) : \A n \in 1..Len(REQUIRED_FIELDS) :
            /\ ~MissingOrEmpty(SourceOf(ParsedSections[i].k), REQUIRED_FIELDS[n])
            /\ HasKey(ParsedSections[i].v.d, REQUIRED_FIELDS[n])

\* C2: whenever load_user_config returns, every field of every returned section maps
\* to a list with at least one element.
C2_NonEmptyPools ==
    pc = "loaded" =>
        \A i \in 1..Len(ParsedSections) : \A j \in 1..Len(ParsedSections[i].v.d) :
            /\ IsList(ParsedSections[i].v.d[j].v)
            /\ Len(ParsedSections[i].v.d[j].v.l) >= 1

\* C6: when a top-level key begins with the section prefix, the returned section
\* names are exactly the top-level keys that begin with that prefix.
C6_PrefixedKeysOnly ==
    (pc = "loaded" /\ HasPrefixedKey) =>
        KeySet(ParsedSections) =
            {k \in KeySet(data.d) : StartsWith(Chars(k), Chars(SectionPrefix))}

\* C7: in every shape, the pool stored for a field is to_choice_list of its raw value.
C7_EveryFieldCoerced ==
    pc = "loaded" =>
        \A i \in 1..Len(ParsedSections) : \A j \in 1..Len(ParsedSections[i].v.d) :
            LET field == ParsedSections[i].v.d[j].k
                raw == Get(SourceOf(ParsedSections[i].k).d, field)
            IN ParsedSections[i].v.d[j].v = List(_to_choice_list(raw))

----------------------------------------------------------------------------
(* Properties of the merger *)

\* For every section s of the user and every field f: the merged section holds the
\* user's value when the user section has f, and otherwise the default of the
\* master's user_profile when it has f.
MergePrecedence(master, user, merged) ==
    \A i \in 1..Len(user.d) :
        LET s == user.d[i].k
            mine == user.d[i].v.d
            defaults == IF HasKey(master.d, "user_profile")
                        THEN Get(master.d, "user_profile").d ELSE <<>>
        IN /\ HasKey(merged.d, s)
           /\ \A j \in 1..Len(mine) :
                /\ HasKey(Get(merged.d, s).d, mine[j].k)
                /\ Get(Get(merged.d, s).d, mine[j].k) = mine[j].v
           /\ \A j \in 1..Len(defaults) :
                ~HasKey(mine, defaults[j].k) =>
                    /\ HasKey(Get(merged.d, s).d, defaults[j].k)
                    /\ Get(Get(merged.d, s).d, defaults[j].k) = defaults[j].v

\* C3: for every master and user mapping, merged[s][f] is user[s][f] when the user
\* section has f (the whole value, no deep merge), and otherwise
\* master["user_profile"][f] when the master has that default; master and user are
\* the mappings handed to the call.
C3_MergePrecedence ==
    [][(pc = "start" /\ pc' = "merged")
          => MergePrecedence(master_data, brd_data, merge_out'.merged)]_vars

----------------------------------------------------------------------------
(* Properties of the record generators *)

\* every required field of the section holds a non-empty list, and a nested
\* ClaimDetails holds mappings only
Normalized(section, v) ==
    /\ IsDict(section)
    /\ \A n \in 1..Len(RequiredOf(v)) :
         /\ HasKey(section.d, RequiredOf(v)[n])
         /\ IsList(Get(section.d, RequiredOf(v)[n]))
         /\ Len(Get(section.d, RequiredOf(v)[n]).l) >= 1
    /\ ~NestedRaises(section)

\* a field whose value is a non-empty list that is not handled as nested
IsFlatPool(field, values) ==
    IsList(values) /\ Len(values.l) > 0 /\ ~IsNestedField(field, values)

\* out holds N records, N the length of the longest required pool, and record i
\* (from 0) holds element i mod len of every flat pool
IndexAligned(section, out, v) ==
    /\ IsList(out)
    /\ \A n \in 1..Len(RequiredOf(v)) : Len(Get(section.d, RequiredOf(v)[n]).l) <= Len(out.l)
    /\ \E n \in 1..Len(RequiredOf(v)) : Len(Get(section.d, RequiredOf(v)[n]).l) = Len(out.l)
    /\ \A i \in 0..(Len(out.l) - 1) : \A j \in 1..Len(section.d) :
         LET g == section.d[j].k
             g_pool == section.d[j].v
         IN IsFlatPool(g, g_pool) =>
              /\ IsDict(out.l[i + 1])
              /\ HasKey(out.l[i + 1].d, g)
              /\ \E m \in 0..(Len(g_pool.l) - 1) :
                   /\ (i - m) % Len(g_pool.l) = 0
                   /\ Get(out.l[i + 1].d, g) = g_pool.l[m + 1]

\* C4: for every normalized section, build_indexed_records returns N records, N the
\* largest pool length over the required fields, and record i (counted from 0)
\* holds, for every flat field g with a non-empty pool, g_pool[i mod len(g_pool)].
C4_IndexAlignment ==
    (pc = "indexed" /\ Normalized(section_options, variant))
        => /\ records.exc = "none"
           /\ IndexAligned(section_options, records.out, variant)

\* a normalized section of core.py with a nested ClaimDetails, whose three records
\* cycle through a pool of two values
C4_Witness ==
    /\ pc = "indexed"
    /\ variant = "core"
    /\ Normalized(section_options, variant)
    /\ records.exc = "none"
    /\ Len(records.out.l) = 3
    /\ Len(Get(section_options.d, "CLM_TYPE").l) = 2
    /\ Get(records.out.l[3].d, "CLM_TYPE") = Get(section_options.d, "CLM_TYPE").l[1]
    /\ IsNestedField("ClaimDetails", Get(section_options.d, "ClaimDetails"))
    /\ HasKey(section_options.d, "extra")

\* the pool of a field value: the elements of a list, a scalar as a singleton pool,
\* nothing for null
PoolOf(values) ==
    IF IsList(values) THEN PoolSet(values.l)
    ELSE IF values = Null THEN {}
    ELSE {values}

\* x is an element of the pool, or the placeholder "" of an empty pool
DrawnFrom(x, values) ==
    \/ x \in PoolOf(values)
    \/ x = Str(<<>>) /\ PoolOf(values) = {}

ClaimDrawValid(claim_detail, processed_claim) ==
    /\ IsDict(processed_claim)
    /\ Len(processed_claim.d) = Len(claim_detail.d)
    /\ \A j \in 1..Len(claim_detail.d) :
         /\ processed_claim.d[j].k = claim_detail.d[j].k
         /\ DrawnFrom(processed_claim.d[j].v, claim_detail.d[j].v)

FieldDrawValid(field, values, x) ==
    IF IsNestedField(field, values)
    THEN /\ IsList(x)
         /\ Len(x.l) = Len(values.l)
         /\ \A c \in 1..Len(values.l) : ClaimDrawValid(values.l[c], x.l[c])
    ELSE DrawnFrom(x, values)

\* every field of the section is in the record, with a value drawn from its pool
RecordDrawValid(section, record) ==
    /\ IsDict(record)
    /\ Len(record.d) = Len(section.d)
    /\ \A j \in 1..Len(section.d) :
         /\ record.d[j].k = section.d[j].k
         /\ FieldDrawValid(section.d[j].k, section.d[j].v, record.d[j].v)

\* C5: in every record that _select_random_record_from_edit, generate_model_records
\* or generate_model_outputs returns, the value of each field (and of each nested
\* ClaimDetails field) is an element of that field's pool in the section, and the
\* placeholder "" stands only for a pool that is empty.
C5_DrawValidity ==
    (pc = "random" /\ records.exc = "none") =>
        CASE records.op = "_select_random_record_from_edit" ->
                RecordDrawValid(section_options, records.out)
          [] records.op = "generate_model_records" ->
                \A r \in 1..Len(records.out.l) :
                    RecordDrawValid(section_options, records.out.l[r])
          [] records.op = "generate_model_outputs" ->
                \A j \in 1..Len(records.out.d) :
                    RecordDrawValid(Get(merged_config.d, records.out.d[j].k),
                                    records.out.d[j].v)

\* every key of the master that is no section key of the user keeps the master's
\* value, and every key of the result is a key of the master or of the user
PassThrough(master, user, merged) ==
    /\ \A i \in 1..Len(master.d) :
         ~HasKey(user.d, master.d[i].k) =>
             /\ HasKey(merged.d, master.d[i].k)
             /\ Get(merged.d, master.d[i].k) = master.d[i].v
    /\ KeySet(merged.d) \subseteq KeySet(master.d) \cup KeySet(user.d)

\* C11: for every master and user mapping, merge_brd_with_master(master, user)[k] is
\* master[k] for every top-level key k of the master that is not a section key of
\* the user (user_profile included), and the result has no top-level key other than
\* the keys of the master and of the user.
C11_MasterOnlyPassThrough ==
    [][(pc = "start" /\ pc' = "merged")
          => PassThrough(master_data, brd_data, merge_out'.merged)]_vars

\* a merge of a user section into a master that holds defaults and a section of
\* its own that the user does not name
C11_Witness ==
    /\ pc = "merged"
    /\ HasKey(master_data.d, "user_profile")
    /\ HasKey(master_data.d, "Model_1")
    /\ ~HasKey(brd_data.d, "user_profile")
    /\ ~HasKey(brd_data.d, "Model_1")
    /\ HasKey(brd_data.d, "Model_2")
    /\ Len(Get(master_data.d, "user_profile").d) > 0
    /\ Get(merge_out.merged.d, "Model_1") = Get(master_data.d, "Model_1")
    /\ Len(merge_out.merged.d) = 3

\* the pairs <<section, record>> of the call just made: each record that the
\* generator returned, with the section it was built from
Produced ==
    IF records.exc # "none" THEN {}
    ELSE CASE records.op = "build_indexed_records" ->
                { <<section_options, records.out.l[r]>> : r \in 1..Len(records.out.l) }
           [] records.op = "generate_model_records" ->
                { <<section_options, records.out.l[r]>> : r \in 1..Len(records.out.l) }
           [] records.op = "_select_random_record_from_edit" ->
                { <<section_options, records.out>> }
           [] records.op = "generate_standard_format" ->
                { <<section_options, records.out.d[1].v>> }
           [] records.op = "generate_model_outputs" ->
                { <<Get(merged_config.d, records.out.d[j].k), records.out.d[j].v>> :
                    j \in 1..Len(records.out.d) }
           [] OTHER -> {}

\* nested is one flattened record of claim_detail: the same fields, each nested
\* non-empty list replaced by one of its elements
IsFlattened(claim_detail, nested) ==
    /\ IsDict(nested)
    /\ Keys(nested.d) = Keys(claim_detail.d)
    /\ \A q \in 1..Len(claim_detail.d) :
         (IsList(claim_detail.d[q].v) /\ Len(claim_detail.d[q].v.l) > 0)
            => nested.d[q].v \in PoolSet(claim_detail.d[q].v.l)

\* A ClaimDetails whose first element is a mapping gives a list of exactly one record,
\* flattened from that first element; the non-empty list of a field of another name
\* gives one of its elements whole, a mapping included (generate_standard_format
\* wraps it in a list).
NestedScope(section, record) ==
    \A j \in 1..Len(section.d) :
        LET field == section.d[j].k
            values == section.d[j].v
            x == Get(record.d, field)
        IN HasKey(record.d, field) =>
             IF IsNestedField(field, values)
             THEN /\ IsList(x)
                  /\ Len(x.l) = 1
                  /\ IsFlattened(values.l[1], x.l[1])
             ELSE (field # "ClaimDetails" /\ IsList(values) /\ Len(values.l) > 0) =>
                     \E e \in PoolSet(values.l) : x = e \/ x = List(<<e>>)

\* C12: in every generation function, nested selection is applied only to the field
\* named ClaimDetails and only to the first element of its list: when that element
\* is a mapping, the record's ClaimDetails is a list of exactly one flattened nested
\* record, whatever the number of elements of the ClaimDetails pool.
C12_NestedScope ==
    \A pair \in Produced : NestedScope(pair[1], pair[2])

\* in every record r (counted from 1) the nested records of a nested ClaimDetails
\* hold, for every nested field whose pool is a non-empty list, the element of
\* the pool whose index is congruent to r - 1
NestedAligned(section, out) ==
    \A r \in 1..Len(out.l) : \A j \in 1..Len(section.d) :
        IsNestedField(section.d[j].k, section.d[j].v) =>
            LET processed == Get(out.l[r].d, section.d[j].k)
            IN \A c \in 1..Len(section.d[j].v.l) : \A q \in 1..Len(section.d[j].v.l[c].d) :
                 LET nested_pool == section.d[j].v.l[c].d[q].v
                 IN (IsList(nested_pool) /\ Len(nested_pool.l) > 0) =>
                      \E m \in 0..(Len(nested_pool.l) - 1) :
                          /\ (r - 1 - m) % Len(nested_pool.l) = 0
                          /\ processed.l[c].d[q].k = section.d[j].v.l[c].d[q].k
                          /\ processed.l[c].d[q].v = nested_pool.l[m + 1]

\* the two records of the documented scenario: (TN, H1, 111) and (KL, H2, 222)
ExampleRecords(out) ==
    /\ Len(out.l) = 2
    /\ Get(out.l[1].d, "PRICNG_ZIP_STATE") = Str(<<"T","N">>)
    /\ Get(out.l[1].d, "HCID") = Str(<<"H","1">>)
    /\ Get(Get(out.l[1].d, "ClaimDetails").l[1].d, "proc_cd") = Str(<<"1","1","1">>)
    /\ Get(out.l[2].d, "PRICNG_ZIP_STATE") = Str(<<"K","L">>)
    /\ Get(out.l[2].d, "HCID") = Str(<<"H","2">>)
    /\ Get(Get(out.l[2].d, "ClaimDetails").l[1].d, "proc_cd") = Str(<<"2","2","2">>)

\* C13: in build_indexed_records, for every index i in [0, N) and every nested field
\* n of the ClaimDetails mapping whose pool is a non-empty list, the nested record of
\* record i holds nested_pool_n[i mod len(nested_pool_n)]; the documented Model_1
\* scenario yields exactly 2 records, (TN, H1, 111) and (KL, H2, 222).
C13_NestedIndexedSelection ==
    (pc = "indexed" /\ records.exc = "none") =>
        /\ NestedAligned(section_options, records.out)
        /\ section_options = ExampleModel1 => ExampleRecords(records.out)

\* the documented scenario has been generated
C13_Witness ==
    /\ pc = "indexed"
    /\ section_options = ExampleModel1
    /\ records.exc = "none"
    /\ Len(records.out.l) = 2

\* the number of records that the call returned
NumReturned(outcome) == IF outcome.exc = "none" THEN Len(outcome.out.l) ELSE 0

\* the field of the section whose pool has received one more value
GrownFields == {j \in 1..Len(section_options.d) : section_options'.d[j].v # section_options.d[j].v}

\* the list of the field has one more element (the value was not added inside
\* a nested mapping)
GrownAsList(j) == Len(section_options'.d[j].v.l) = Len(section_options.d[j].v.l) + 1

IsRequired(field, v) == \E n \in 1..Len(RequiredOf(v)) : RequiredOf(v)[n] = field

IsPlainScalar(x) == x.t \in {"str", "num", "bool"}

\* a scalar field is in the record as it is, and the placeholder "" stands only for
\* a value that is neither a non-empty list nor a scalar
ScalarPassThrough(section, record) ==
    \A j \in 1..Len(section.d) :
        LET values == section.d[j].v
            x == Get(record.d, section.d[j].k)
        IN /\ HasKey(record.d, section.d[j].k)
           /\ IsPlainScalar(values) => x = values
           /\ (x = Str(<<>>) /\ values # Str(<<>>)) =>
                 /\ ~(IsList(values) /\ Len(values.l) > 0)
                 /\ ~IsPlainScalar(values)

RandomFunctions ==
    {"generate_model_outputs", "generate_model_records", "_select_random_record_from_edit"}

\* C15: in generate_model_outputs, generate_model_records and
\* _select_random_record_from_edit, a field whose value in the section is a scalar
\* (a string, a number or a boolean) appears verbatim in the record; the placeholder
\* "" is emitted only for a value that is neither a non-empty list nor a scalar.
C15_ScalarPassThrough ==
    (pc = "random" /\ records.op \in RandomFunctions) =>
        \A pair \in Produced : ScalarPassThrough(pair[1], pair[2])

\* the two lists of records have the same length and, at every index, the same
\* value of every field of the section other than ClaimDetails
SameFlatSelections(section, before, after) ==
    /\ Len(after.l) = Len(before.l)
    /\ \A r \in 1..Len(before.l) : \A j \in 1..Len(section.d) :
         section.d[j].k # "ClaimDetails" =>
             /\ HasKey(after.l[r].d, section.d[j].k)
             /\ Get(after.l[r].d, section.d[j].k) = Get(before.l[r].d, section.d[j].k)

\* C16: for any two sections that differ only in the content of ClaimDetails (its
\* nested fields and nested pools, the list keeping its length),
\* build_indexed_records returns the same number of records and, at every index,
\* the same value of every flat field.
C16_NestedFieldIsolation ==
    [][(pc = "indexed" /\ pc' = "renested" /\ ~NestedRaises(section_options'))
          => /\ records'.exc = "none"
             /\ SameFlatSelections(section_options, records.out, records'.out)]_vars

\* records built again after a change inside a nested ClaimDetails
C16_Witness ==
    /\ pc = "renested"
    /\ records.exc = "none"
    /\ Len(records.out.l) >= 2
    /\ IsNestedField("ClaimDetails", Get(section_options.d, "ClaimDetails"))
    /\ HasKey(section_options.d, "extra")

\* item i of the payload is named after a section of edits and holds a record drawn
\* from the pools of that section
PayloadItemValid(edits, item, i) ==
    \E j \in 1..Len(edits.d) :
        /\ Get(item.d, "key") = Str(OutputKey(edits.d[j].k, i))
        /\ RecordDrawValid(edits.d[j].v, Get(item.d, "value"))

\* C17: for every non-empty mapping of sections and every count >= 1,
\* build_output_payload returns a payload of exactly count records; record i is under
\* the key "<section>_output_<i>" for a section of the mapping, and its field values
\* are drawn from the pools of that same section.
C17_RandomBatch ==
    (/\ pc = "batch"
     /\ records.op = "build_output_payload"
     /\ count >= 1
     /\ Len(merged_config.d) > 0) =>
        /\ records.exc = "none"
        /\ Len(records.out.l) = count
        /\ \A i \in 1..count : PayloadItemValid(merged_config, records.out.l[i], i)

\* every section of the configuration is a field mapping
SectionsAreMappings(config) == \A j \in 1..Len(config.d) : IsDict(config.d[j].v)

\* the keys of config that the list names
NamedKeys(config, models) ==
    { k \in KeySet(config.d) : \E i \in 1..Len(models.l) : models.l[i].s = Chars(k) }

\* C18: for every merged configuration (a mapping of section names to field mappings)
\* and every explicit list of model names, generate_model_outputs completes without
\* error and the key set of its result is exactly the names of the list that are keys
\* of the configuration; a name absent from it gives neither an entry nor an error.
C18_AbsentNamesSkipped ==
    (/\ pc = "random"
     /\ records.op = "generate_model_outputs"
     /\ selected_models # Null
     /\ SectionsAreMappings(merged_config)) =>
        /\ records.exc = "none"
        /\ KeySet(records.out.d) = NamedKeys(merged_config, selected_models)

\* a list that names one absent and one present section gave the entry of the present
\* section alone
C18_Witness ==
    /\ pc = "random"
    /\ records.op = "generate_model_outputs"
    /\ records.exc = "none"
    /\ selected_models = List(<<Str(Chars("other")), Str(Chars("Model_1"))>>)
    /\ KeySet(merged_config.d) = {"Model_1", "Model_2"}
    /\ KeySet(records.out.d) = {"Model_1"}

\* the keys of config that do not begin with "user_profile"
ModelKeys(config) ==
    { k \in KeySet(config.d) : ~StartsWith(Chars(k), Chars("user_profile")) }

\* C19: with no explicit list of models, generate_model_outputs selects exactly the
\* top-level keys of the merged configuration that do not begin with "user_profile":
\* its result has one entry for each such key and none for user_profile.
C19_DefaultSelection ==
    (/\ pc = "random"
     /\ records.op = "generate_model_outputs"
     /\ selected_models = Null
     /\ SectionsAreMappings(merged_config)) =>
        /\ records.exc = "none"
        /\ KeySet(records.out.d) = ModelKeys(merged_config)
        /\ Len(records.out.d) = Cardinality(ModelKeys(merged_config))

\* a configuration of a model and of a key that begins with "user_profile" gave the
\* entry of the model alone
C19_Witness ==
    /\ pc = "random"
    /\ records.op = "generate_model_outputs"
    /\ records.exc = "none"
    /\ selected_models = Null
    /\ Len(merged_config.d) = 2
    /\ merged_config.d[1].k = "user_profile_2"
    /\ IsDict(merged_config.d[1].v)
    /\ KeySet(records.out.d) = {merged_config.d[2].k}

\* the model named is no section of the configuration: no key of user_data is the
\* name, and for generate_scenarios no key begins with the name or its capitalized form
NamedModelAbsent ==
    IF records.op = "generate_scenarios"
    THEN \A j \in 1..Len(merged_config.d) :
            /\ ~StartsWith(Chars(merged_config.d[j].k), args_model.s)
            /\ ~StartsWith(Chars(merged_config.d[j].k), Capitalize(args_model.s))
    ELSE \A j \in 1..Len(merged_config.d) : Chars(merged_config.d[j].k) # args_model.s

\* the run ended with a SystemExit whose message has every section name in it
ExitListsSections ==
    /\ records.exc = "SystemExit"
    /\ IsStr(Get(records.out.d, "message"))
    /\ \A j \in 1..Len(merged_config.d) :
         Contains(Get(records.out.d, "message").s, Chars(merged_config.d[j].k))

\* C20: in every entry point that takes the name of a model or section (cli.main
\* --model, generate_mock_output.main --model, generate_scenarios with a model), a
\* name that is no section of the loaded configuration ends the run with a fatal error
\* whose message lists the available section names, and nothing is written.
C20_SelectionErrorFatal ==
    (pc = "named" /\ NamedModelAbsent) =>
        /\ ExitListsSections
        /\ Len(Get(records.out.d, "written").l) = 0

\* the characters of a key without its trailing scenario suffix, whatever the letter
\* case of the suffix; the whole key if it has none
LogicalModel(key) ==
    IF \E n \in 1..3 :
         /\ Len(key) >= Len(Chars(ScenarioSuffixes[n]))
         /\ ToLower(SubSeq(key, Len(key) - Len(Chars(ScenarioSuffixes[n])) + 1, Len(key)))
              = Chars(ScenarioSuffixes[n])
    THEN LET n == CHOOSE n \in 1..3 :
                    /\ Len(key) >= Len(Chars(ScenarioSuffixes[n]))
                    /\ ToLower(SubSeq(key, Len(key) - Len(Chars(ScenarioSuffixes[n])) + 1,
                                      Len(key))) = Chars(ScenarioSuffixes[n])
         IN SubSeq(key, 1, Len(key) - Len(Chars(ScenarioSuffixes[n])))
    ELSE key

LogicalModels(config) == { LogicalModel(Chars(config.d[j].k)) : j \in 1..Len(config.d) }

\* C21: _get_model_names strips a trailing _positive, _negative or _exclusion (in any
\* letter case, and only as a suffix) from each section key and returns each logical
\* model exactly once: keys that differ only by their scenario suffix, or by having
\* none, contribute a single base name.
C21_BaseNamesDeduplicated ==
    (pc = "names" /\ records.op = "_get_model_names") =>
        /\ Len(records.out.l) = Cardinality(LogicalModels(merged_config))
        /\ \A i \in 1..Len(records.out.l) :
             \E b \in LogicalModels(merged_config) :
                 ToLower(records.out.l[i].s) = ToLower(b)

\* the section named is one of the configuration, holds no value (it has no field, or
\* every pool of it is empty), and the caller builds its records by index
EmptySectionIndexed ==
    /\ records.op \in {"cli.main", "generate_mock_output.main"}
    /\ \E j \in 1..Len(merged_config.d) :
         /\ Chars(merged_config.d[j].k) = args_model.s
         /\ IsDict(merged_config.d[j].v)
         /\ \A f \in 1..Len(merged_config.d[j].v.d) :
              merged_config.d[j].v.d[f].v = PoolEmpty
         /\ records.op = "cli.main" =>
              \A f \in 1..Len(merged_config.d[j].v.d) : ~IsList(merged_config.d[j].v.d[f].v)

\* C22: when indexed-mode generation for a structurally valid section yields no record,
\* cli.main and generate_mock_output.main (--model) surface a message and end
\* normally; they do not abort the run with a fatal error.
C22_EmptyResultIsWarning ==
    (pc = "named" /\ EmptySectionIndexed) =>
        /\ records.exc = "none"
        /\ IsStr(Get(records.out.d, "message"))

\* every required field of the section is absent or has an empty pool
NoValidField(section) ==
    /\ IsDict(section)
    /\ \A n \in 1..Len(REQUIRED_FIELDS) :
         HasKey(section.d, REQUIRED_FIELDS[n]) => Get(section.d, REQUIRED_FIELDS[n]) = PoolEmpty

\* C23: for a section that has no valid field (an empty section, or one whose required
\* fields are absent or have empty pools), build_indexed_records returns the empty
\* list and raises no error.
C23_EmptySectionEmptyBatch ==
    (pc = "indexed" /\ NoValidField(section_options)) =>
        /\ records.exc = "none"
        /\ Len(records.out.l) = 0

\* C24: for a document with no prefixed top-level key, if every top-level value is a
\* mapping the sections that load_user_config returns are exactly the top-level keys;
\* otherwise it returns exactly one section, under a synthetic name, whose pools are
\* built from the top-level fields of the document.
C24_UnprefixedShapes ==
    (pc = "loaded" /\ ~HasPrefixedKey) =>
        IF \A i \in 1..Len(data.d) : IsDict(data.d[i].v)
        THEN /\ KeySet(ParsedSections) = KeySet(data.d)
             /\ Len(ParsedSections) = Len(data.d)
        ELSE /\ Len(ParsedSections) = 1
             /\ ParsedSections[1].k = "Edit_1"
             /\ ~HasKey(data.d, ParsedSections[1].k)
             /\ Len(ParsedSections[1].v.d) > 0
             /\ \A j \in 1..Len(ParsedSections[1].v.d) :
                  LET field == ParsedSections[1].v.d[j].k
                  IN /\ HasKey(data.d, field)
                     /\ IsList(ParsedSections[1].v.d[j].v)
                     /\ IsCoercionOf(ParsedSections[1].v.d[j].v.l, Get(data.d, field))

\* a flat document with a comma-separated string among its fields was loaded as one
\* section
C24_Witness ==
    /\ pc = "loaded"
    /\ IsFlatShape
    /\ Len(ParsedSections) = 1
    /\ \E i \in 1..Len(data.d) : IsStr(data.d[i].v) /\ Contains(data.d[i].v.s, <<",">>)

\* C29: merge_brd_with_master does not modify its inputs: after it returns, master and
\* user are equal to their values before the call (also when a user section has a key
\* of the master, or is named user_profile).
C29_MergeKeepsInputs ==
    [][(pc = "start" /\ pc' = "merged")
          => (master_data' = master_data /\ brd_data' = brd_data)]_vars

\* the values that a random-mode record built now can hold in a field of section j
ValuesNow(j, field) ==
    { Get(r.out.d, field) :
        r \in _select_random_record_from_edit(merged_config.d[j].v, variant) }

\* C25: after any sequence of generation calls (random or indexed, in any order, on
\* any sections) the configuration handed to them is unchanged, and the values that a
\* later random-mode record can take in a field are the whole original pool.
C25_NoExhaustion ==
    pc = "calls" =>
        /\ merged_config = data
        /\ \A j \in 1..Len(data.d) : \A f \in 1..Len(data.d[j].v.d) :
             LET field == data.d[j].v.d[f].k
                 values == data.d[j].v.d[f].v
             IN IsFlatPool(field, values) => ValuesNow(j, field) = PoolSet(values.l)

\* the last of MaxCalls calls was a random draw from a pool of two values
C25_Witness ==
    /\ pc = "calls"
    /\ count = MaxCalls
    /\ records.op = "generate_model_records"
    /\ records.exc = "none"
    /\ \E j \in 1..Len(data.d) :
         /\ HasKey(data.d[j].v.d, "HCID")
         /\ Len(Get(data.d[j].v.d, "HCID").l) = 2
         /\ Get(records.out.l[1].d, "HCID") = Get(data.d[j].v.d, "HCID").l[2]

\* C26: for every section data mapping of the raw configuration and every scenario
\* type, generate_wgs_format returns without raising a mapping with the single key
\* "WGS_csbd_medicaid_<type in lower case>" whose value holds each of the 21 template
\* fields with a non-empty value, and the result passes check_json_format.
C26_WgsComplete ==
    pc = "wgs" =>
        /\ records.exc = "none"
        /\ Get(records.out.d, "key").s
             = Chars("WGS_csbd_medicaid") \o <<"_">> \o ToLower(Chars(probability_type))
        /\ \A i \in 1..Len(template_fields) :
             /\ HasKey(Get(records.out.d, "value").d, template_fields[i])
             /\ ~Falsy(Get(Get(records.out.d, "value").d, template_fields[i]))
        /\ check_json_format(records.out)

\* the scenario types whose suffix a key ends with, in any letter case
ScenariosOf(key) ==
    { scenario \in ScenarioTypes :
        /\ Len(key) > Len(Chars(scenario))
        /\ ToLower(SubSeq(key, Len(key) - Len(Chars(scenario)), Len(key)))
             = <<"_">> \o Chars(scenario) }

\* C27: for every section key K that ends with _positive, _negative or _exclusion, in
\* any letter case, some name b returned by _get_model_names has
\* _get_probability_data(b, type) == config[K], and generate_scenarios called without
\* a model reaches the section of K exactly once.
C27_BaseNameRoundTrip ==
    (pc = "names" /\ records.op = "_get_model_names") =>
        \A j \in 1..Len(merged_config.d) :
            \A scenario \in ScenariosOf(Chars(merged_config.d[j].k)) :
                LET reached == ScenarioSectionsReached(merged_config, records.out.l,
                                                       scenario, 1)
                IN Cardinality({ i \in 1..Len(reached) :
                                   reached[i] = merged_config.d[j].v }) = 1

\* C28: for every syntactically valid JSON document (top level an object, an array or
\* a scalar; section values mappings, strings, lists or null) load_user_config returns
\* a mapping or fails with SystemExit; it never fails with any other error.
C28_LoaderFailuresAreSystemExit ==
    pc \in {"loaded", "failed"} => loaded.exc \in {"none", "SystemExit"}

\* the raw section has a ClaimDetails list whose first element is a mapping
HasNestedClaimDetails(section) ==
    /\ IsDict(section)
    /\ HasKey(section.d, "ClaimDetails")
    /\ IsList(Get(section.d, "ClaimDetails"))
    /\ Len(Get(section.d, "ClaimDetails").l) > 0
    /\ IsDict(Get(section.d, "ClaimDetails").l[1])

\* C30: in every document shape that load_user_config accepts, when the ClaimDetails
\* of a section is a list whose first element is a mapping of nested pools, the first
\* element of the loaded pool is still a mapping, so that the generators emit a nested
\* record selected from the nested pools and not one stringified object.
C30_NestedClaimDetailsKept ==
    (pc = "loaded" /\ variant = "core") =>
        \A i \in 1..Len(ParsedSections) :
            HasNestedClaimDetails(SourceOf(ParsedSections[i].k)) =>
                LET section == ParsedSections[i].v
                IN /\ HasNestedClaimDetails(section)
                   /\ LET built == build_indexed_records(section, variant)
                      IN built.exc = "none" =>
                           \A r \in 1..Len(built.out.l) :
                               HasNestedClaimDetails(built.out.l[r])

====
